---- MODULE Spec2Model ----
(***************************************************************************)
(* A model of the blazar lease manager (blazar/manager/service.py) and of  *)
(* the physical host plugin (blazar/plugins/oshosts/host_plugin.py):       *)
(*   - the batch selection of the event engine, as a pure function         *)
(*     (specification SpecSelect, and SpecSelectAny on leases with several *)
(*     events of one type);                                                *)
(*   - the event engine, its concurrent workers and the status-guarded     *)
(*     lease operations (specification SpecEngine);                        *)
(*   - create_lease and update_lease with dates, events and host           *)
(*     allocations (specification SpecLease);                              *)
(*   - update_lease on leases of several reservations (specification      *)
(*     SpecMulti), and together with the engine (specification SpecTerm);  *)
(*   - the engine with rename and delete calls (specification SpecGuard),  *)
(*     and the engine alone under fair scheduling (specification SpecLive);*)
(*   - the execution order of the reservations of a lease (specification   *)
(*     SpecOrder) and the plugin registry (specification SpecPlugins), as  *)
(*     pure functions;                                                     *)
(*   - create_lease alone (specification SpecCreate), update_lease moving  *)
(*     a before_end_lease event already done (specification SpecShift),    *)
(*     and the end of a lease under usage enforcement (specification       *)
(*     SpecEnd).                                                           *)
(* Dates are integers (minutes); "None" and missing rows are the strings   *)
(* the definitions below name.                                             *)
(***************************************************************************)
EXTENDS Integers, Sequences, FiniteSets, TLC

\* ------------------------------------------------------------------ bounds
\* leases and instants of the inputs of select_for_execution
NumSelLeases == 2
MaxSelTime == 2
MaxSelLen == 4
\* lease rows, the last minute of the clock, API calls in flight at once,
NumLeases == 2
MaxDate == 3
NumApi == 2
\* API calls in one run
MaxCalls == 3

\* ----------------------------------------------------------- configuration
\* manager.event_max_retries (its default)
event_max_retries == 1
\* manager.minutes_before_end_lease (its default): minutes between the
\* before_end_lease event and the end of the lease; 0 disables the event
minutes_before_end_lease == 60
\* cleaning_time: minutes a host is kept free around a reservation (default)
cleaning_time == 0

\* ------------------------------------------------------------ vocabulary
EventTypes == {"start_lease", "end_lease", "before_end_lease"}

\* positions of the batches in the list select_for_execution returns
BATCH_BEFORE_END == 1
BATCH_END == 2
BATCH_START == 3
BATCH_DEFERRED_BEFORE_END == 4
BATCH_DEFERRED_END == 5
BATCH_LATER == 6

\* blazar.status (lease, event and reservation statuses)
STABLE == {"PENDING", "ACTIVE", "TERMINATED", "ERROR"}
TRANSITIONAL == {"CREATING", "STARTING", "UPDATING", "TERMINATING", "DELETING"}
EventStatuses == {"UNDONE", "IN_PROGRESS", "DONE", "ERROR"}

LeaseIds == 1..NumLeases
ResIds == 1..(2 * NumLeases)
Hosts == 1..(NumLeases + 1)
EventIds == 1..(4 * NumLeases)
Dates == 0..MaxDate
ApiProcs == 1..NumApi
Names == {"a", "b"}

NoLease == [status |-> "NONE", name |-> "NONE", start_date |-> 0, end_date |-> 0]
NoReservation == [lease_id |-> 0, resource_type |-> "NONE", status |-> "NONE"]
NoEvent == [lease_id |-> 0, event_type |-> "NONE", time |-> 0, status |-> "NONE"]
NoWorker ==
    [pc |-> "none", event |-> NoEvent, raised |-> "NONE", caught |-> "NONE",
     retry |-> "NONE"]
\* In a request, a date key that is missing and the literal 'now'.
ABSENT == 0 - 1
NOW == 0 - 2
NoValues == [name |-> "NONE", start_date |-> ABSENT, end_date |-> ABSENT,
             before_end_date |-> ABSENT, events |-> <<>>, reservations |-> <<>>]
\* What an update_lease call found when it began: the lease's name and
\* dates, the times of its events and the allocations of its reservations.
NoSnapshot ==
    [name |-> "NONE", start_date |-> 0, end_date |-> 0, times |-> {}, allocs |-> {}]
\* An API call: the operation, where it stands, its arguments and locals
\* (and, for the record, what it found).
IdleCall == [op |-> "NONE", pc |-> "idle", lease_id |-> 0, original_status |-> "NONE",
             raised |-> "NONE", values |-> NoValues, start_date |-> 0, end_date |-> 0,
             before_end_date |-> ABSENT, events |-> <<>>, res_id |-> 0, host_ids |-> {},
             end_lease |-> FALSE, before |-> NoSnapshot]

\* A deployment without enforcement filters: on_end has nothing to run.
NoEnforcement == [enabled_filters |-> FALSE, on_end |-> [l \in LeaseIds |-> <<>>]]

\* No helper call in progress.
NoFnCall ==
    [pc |-> "off", op |-> "NONE", args |-> <<>>, result |-> <<>>, invoked |-> <<>>,
     raised |-> "NONE"]

VARIABLES
    selInput,     \* the argument of select_for_execution: events sorted by time
    selBatches,   \* what it returned: a list of batches, or "ValueError"
    selPc,        \* "input" before the call, "done" after it
    now,          \* the clock (utcnow), in minutes
    leases,       \* the lease table: id -> row (status "NONE": no row)
    reservations, \* the reservation table
    events,       \* the event table
    allocations,  \* the host allocation table: {<<reservation id, host>>}
    hosts,        \* the compute host table: the reservable hosts
    engPc,        \* the event engine: "idle", "dispatch" (in the spawn loop), "wait"
    engBatches,   \* the batches of the running tick
    engB,         \* the batch being processed
    engI,         \* the next event of that batch to look at
    workers,      \* the green threads running exec_event, by event id
    api,          \* the API calls in flight (RPC worker threads)
    calls,        \* the number of API calls received so far
    hStarted,     \* history: the events whose handler began its work
    hFinished,    \* history: the events whose handler ran to its end
    notifications, \* the notifications sent: {<<name, lease id>>}
    enforcement,  \* the usage enforcement: its filters, its on_end calls by lease
    fnCall        \* one call of a helper of the manager: its arguments and result

selVars == <<selInput, selBatches, selPc, fnCall>>
dbVars == <<leases, reservations, events, allocations, hosts>>
engVars == <<engPc, engBatches, engB, engI, workers>>
histVars == <<hStarted, hFinished>>
vars == <<selInput, selBatches, selPc, now, leases, reservations, events,
          allocations, hosts, engPc, engBatches, engB, engI, workers, api,
          calls, hStarted, hFinished, notifications, enforcement, fnCall>>

\* ------------------------------------------------- select_for_execution
Range(s) == {s[i] : i \in DOMAIN s}

RemoveFirst(s, x) ==
    LET i == CHOOSE j \in DOMAIN s : s[j] = x /\ \A k \in 1..(j - 1) : s[k] # x
    IN  SubSeq(s, 1, i - 1) \o SubSeq(s, i + 1, Len(s))

\* A faulty inner loop that defers only the end_lease sibling.
DeferOne_EndOnly(acc, e) ==
    IF e.event_type = "end_lease" /\ e \in Range(acc.end)
    THEN [acc EXCEPT !.end = RemoveFirst(acc.end, e),
                     !.deferred_end = Append(acc.deferred_end, e)]
    ELSE acc

\* The body of the inner loop, for one event e of the start event's lease:
\* acc is [before_end, end, deferred_before_end, deferred_end, error].
\* list.remove raises ValueError when e is not in the list any more.
DeferOne(acc, e) ==
    IF acc.error THEN acc
    ELSE IF e.event_type = "before_end_lease"
    THEN IF e \in Range(acc.before_end)
         THEN [acc EXCEPT !.before_end = RemoveFirst(acc.before_end, e),
                          !.deferred_before_end = Append(acc.deferred_before_end, e)]
         ELSE [acc EXCEPT !.error = TRUE]
    ELSE IF e.event_type = "end_lease"
    THEN IF e \in Range(acc.end)
         THEN [acc EXCEPT !.end = RemoveFirst(acc.end, e),
                          !.deferred_end = Append(acc.deferred_end, e)]
         ELSE [acc EXCEPT !.error = TRUE]
    ELSE acc

RECURSIVE DeferSiblings(_, _)
\* for e in events_by_lease[start_event['lease_id']]
DeferSiblings(acc, siblings) ==
    IF siblings = <<>> THEN acc
    ELSE DeferSiblings(DeferOne(acc, Head(siblings)), Tail(siblings))

RECURSIVE DeferForStarts(_, _, _)
\* for start_event in events_by_type['start_lease']
DeferForStarts(acc, starts, first_events) ==
    IF starts = <<>> THEN acc
    ELSE LET start_event == Head(starts)
             siblings == SelectSeq(first_events,
                             LAMBDA e : e.lease_id = start_event.lease_id)
         IN  DeferForStarts(DeferSiblings(acc, siblings), Tail(starts), first_events)

select_for_execution(due) ==
    IF due = <<>> THEN <<>>
    ELSE LET first_due == SelectSeq(due, LAMBDA e : e.time = due[1].time)
             by_type(t) == SelectSeq(first_due, LAMBDA e : e.event_type = t)
             acc == DeferForStarts(
                        [before_end |-> by_type("before_end_lease"),
                         end |-> by_type("end_lease"),
                         deferred_before_end |-> <<>>,
                         deferred_end |-> <<>>,
                         error |-> FALSE],
                        by_type("start_lease"), first_due)
             later_due == SelectSeq(due, LAMBDA e : e \notin Range(first_due))
         IN  IF acc.error THEN "ValueError"
             ELSE << acc.before_end,
                     acc.end,
                     by_type("start_lease"),
                     acc.deferred_before_end,
                     acc.deferred_end,
                     later_due >>

\* The batch an event was put in (0: in none).
BatchOf(batches, e) ==
    IF \E i \in DOMAIN batches : e \in Range(batches[i])
    THEN CHOOSE i \in DOMAIN batches : e \in Range(batches[i])
    ELSE 0

\* ------------------------------------------------------------ SpecSelect
\* The inputs: lists of events sorted ascending by time, as
\* event_get_all_sorted_by_filters returns them (ties in any order), each
\* event a row of its own, a lease having at most one event of each type.
SelLeases == 1..NumSelLeases
SelTimes == 1..MaxSelTime
TypeIndex(t) == CASE t = "start_lease" -> 1 [] t = "before_end_lease" -> 2 [] OTHER -> 3

SelEvent(l, t, time) ==
    [id |-> (l - 1) * 3 + TypeIndex(t), lease_id |-> l, event_type |-> t, time |-> time]

SelEvents == {SelEvent(l, t, time) : l \in SelLeases, t \in EventTypes, time \in SelTimes}

\* The query result is drawn a row at a time: any row not yet in the list
\* whose time is not earlier than the last row's.
SelIdle ==
    /\ selInput = <<>>
    /\ enforcement = NoEnforcement
    /\ selBatches = <<>>
    /\ selPc = "off"
    /\ fnCall = NoFnCall

EmptySystem ==
    /\ now = 0
    /\ leases = [l \in LeaseIds |-> NoLease]
    /\ reservations = [r \in ResIds |-> NoReservation]
    /\ events = [e \in EventIds |-> NoEvent]
    /\ allocations = {}
    /\ engPc = "idle"
    /\ engBatches = <<>>
    /\ engB = 0
    /\ engI = 0
    /\ workers = [e \in EventIds |-> NoWorker]
    /\ api = [p \in ApiProcs |-> IdleCall]
    /\ calls = 0
    /\ hStarted = {}
    /\ hFinished = {}
    /\ notifications = {}

SelInit ==
    /\ selInput = <<>>
    /\ enforcement = NoEnforcement
    /\ selBatches = <<>>
    /\ selPc = "input"
    /\ fnCall = NoFnCall
    /\ EmptySystem
    /\ hosts = {}

SelFetchRow ==
    /\ selPc = "input"
    /\ Len(selInput) < MaxSelLen
    /\ \E e \in SelEvents :
          /\ \A i \in DOMAIN selInput : selInput[i].id # e.id
          /\ selInput # <<>> => selInput[Len(selInput)].time <= e.time
          /\ selInput' = Append(selInput, e)
    /\ UNCHANGED <<selBatches, selPc, fnCall, enforcement, now, calls, dbVars, engVars, api, histVars,
                   notifications>>

SelectForExecution ==
    /\ selPc = "input"
    /\ selBatches' = select_for_execution(selInput)
    /\ selPc' = "done"
    /\ UNCHANGED <<selInput, fnCall, enforcement, now, calls, dbVars, engVars, api, histVars, notifications>>

SelNext == SelFetchRow \/ SelectForExecution

SpecSelect == SelInit /\ [][SelNext]_vars

\* The same call on whatever the event table can hold: create_lease writes
\* the events of its caller next to its own, so a lease may have several
\* events of one type, each a row with its own id.
SelAnyRows ==
    {[id |-> Len(selInput) + 1, lease_id |-> l, event_type |-> t, time |-> time] :
        l \in SelLeases, t \in EventTypes, time \in SelTimes}

SelFetchAnyRow ==
    /\ selPc = "input"
    /\ Len(selInput) < MaxSelLen
    /\ \E e \in SelAnyRows :
          /\ selInput # <<>> => selInput[Len(selInput)].time <= e.time
          /\ selInput' = Append(selInput, e)
    /\ UNCHANGED <<selBatches, selPc, fnCall, enforcement, now, calls, dbVars, engVars, api, histVars,
                   notifications>>

SelAnyNext == SelFetchAnyRow \/ SelectForExecution

SpecSelectAny == SelInit /\ [][SelAnyNext]_vars

\* ------------------------------------------------------ status machine
\* The transition each operation is decorated with (lease_status(transition=...));
\* before_end_lease carries no decorator.
TransitionOf_EndUnguarded(op) ==
    CASE op = "update_lease" -> "UPDATING"
      [] op = "delete_lease" -> "DELETING"
      [] op = "start_lease" -> "STARTING"
      [] OTHER -> "NONE"

TransitionOf(op) ==
    CASE op = "update_lease" -> "UPDATING"
      [] op = "delete_lease" -> "DELETING"
      [] op = "start_lease" -> "STARTING"
      [] op = "end_lease" -> "TERMINATING"
      [] OTHER -> "NONE"

GuardedOps == {"update_lease", "delete_lease", "start_lease", "end_lease"}

\* LeaseStatus.is_stable: a lease whose row is gone is not in a stable status.
is_stable(l) == leases[l].status \in STABLE

\* A guard that lets every operation start from any stable status.
MayEnter_AnyStable(op, st) == st \in STABLE

\* The guard's entry test: the status the operation may start from.
MayEnter(op, st) ==
    CASE op = "start_lease" -> st = "PENDING"
      [] op = "end_lease" -> st = "ACTIVE"
      [] OTHER -> st \in STABLE

\* The stable status a guarded operation leaves the lease in when its body
\* returned: update goes back to the status it found, start and end reach
\* their result when the event ended DONE and ERROR otherwise.
ResultStatus(op, original, event_status) ==
    CASE op = "update_lease" -> original
      [] op = "start_lease" -> IF event_status = "DONE" THEN "ACTIVE" ELSE "ERROR"
      [] op = "end_lease" -> IF event_status = "DONE" THEN "TERMINATED" ELSE "ERROR"
      [] OTHER -> "ERROR"

\* ------------------------------------------------------------ repository
LeaseExists(l) == leases[l].status # "NONE"
EventsOfLease(l) == {e \in EventIds : events[e].status # "NONE" /\ events[e].lease_id = l}
ReservationsOfLease(l) ==
    {r \in ResIds : reservations[r].status # "NONE" /\ reservations[r].lease_id = l}

\* db_api.event_update: a row that is gone is left alone.
event_update(tbl, e, st) ==
    IF tbl[e].status = "NONE" THEN tbl ELSE [tbl EXCEPT ![e].status = st]

\* db_api.event_get_first_sorted_by_filters(lease_id, event_type): 0 when none.
event_get_first(l, t) ==
    LET found == {e \in EventsOfLease(l) : events[e].event_type = t}
    IN  IF found = {} THEN 0 ELSE CHOOSE e \in found : \A f \in found : e <= f

\* db_api.lease_destroy: the lease row and, by cascade, its reservations,
\* their allocations and its events.
DestroyLease(l) ==
    /\ leases' = [leases EXCEPT ![l] = NoLease]
    /\ reservations' = [r \in ResIds |->
                          IF r \in ReservationsOfLease(l) THEN NoReservation
                          ELSE reservations[r]]
    /\ events' = [e \in EventIds |->
                    IF e \in EventsOfLease(l) THEN NoEvent ELSE events[e]]
    /\ allocations' = {a \in allocations : a[1] \notin ReservationsOfLease(l)}
    /\ UNCHANGED hosts

\* --------------------------------------------------------- event engine
Snapshot(e) ==
    [id |-> e, lease_id |-> events[e].lease_id,
     event_type |-> events[e].event_type, time |-> events[e].time]

DueEvents == {e \in EventIds : events[e].status = "UNDONE" /\ events[e].time <= now}

\* The lists event_get_all_sorted_by_filters may return for a set of rows:
\* every order of them that ascends by time.
RECURSIVE SortedLists(_)
SortedLists(S) ==
    IF S = {} THEN {<<>>}
    ELSE LET firsts == {e \in S : \A f \in S : events[e].time <= events[f].time}
         IN  UNION { { <<Snapshot(e)>> \o rest : rest \in SortedLists(S \ {e}) }
                     : e \in firsts }

\* The first batch after batch b that holds an event (7: none).
NextBatch(batches, b) ==
    IF \E i \in (b + 1)..Len(batches) : batches[i] # <<>>
    THEN CHOOSE i \in (b + 1)..Len(batches) :
            /\ batches[i] # <<>>
            /\ \A j \in (b + 1)..(i - 1) : batches[j] = <<>>
    ELSE Len(batches) + 1

\* _process_events: fetch the due events and split them into batches.
\* A ValueError of select_for_execution ends the tick.
Tick ==
    /\ engPc = "idle"
    /\ DueEvents # {}
    /\ \E due \in SortedLists(DueEvents) :
          LET batches == select_for_execution(due)
          IN  /\ batches # "ValueError"
              /\ engBatches' = batches
              /\ engB' = NextBatch(batches, 0)
              /\ engI' = 1
              /\ engPc' = "dispatch"
    /\ UNCHANGED <<selVars, enforcement, calls, now, dbVars, workers, api, histVars, notifications>>

\* _process_events_concurrently, the spawn loop, for one event of the batch.
Dispatch ==
    /\ engPc = "dispatch"
    /\ LET batch == engBatches[engB]
           e == batch[engI]
       IN  /\ IF is_stable(e.lease_id)
              THEN /\ events' = event_update(events, e.id, "IN_PROGRESS")
                   /\ workers' = [workers EXCEPT ![e.id] =
                                    [NoWorker EXCEPT !.pc = "spawned", !.event = e]]
              ELSE UNCHANGED <<events, workers>>
           /\ IF engI < Len(batch)
              THEN engI' = engI + 1 /\ UNCHANGED engPc
              ELSE engI' = 0 /\ engPc' = "wait"
    /\ UNCHANGED <<selVars, enforcement, calls, now, leases, reservations, allocations, hosts,
                   engBatches,
                   engB, api, histVars, notifications>>

\* _process_events_concurrently, the wait loop: every thread of the batch has
\* ended; _process_events goes on to the next batch or ends the tick.
WaitBatch ==
    /\ engPc = "wait"
    /\ \A i \in DOMAIN engBatches[engB] :
          workers[engBatches[engB][i].id].pc \in {"none", "finished"}
    /\ workers' = [e \in EventIds |->
                     IF \E i \in DOMAIN engBatches[engB] : engBatches[engB][i].id = e
                     THEN NoWorker ELSE workers[e]]
    /\ IF NextBatch(engBatches, engB) <= Len(engBatches)
       THEN /\ engB' = NextBatch(engBatches, engB)
            /\ engI' = 1
            /\ engPc' = "dispatch"
            /\ UNCHANGED engBatches
       ELSE /\ engB' = 0
            /\ engI' = 0
            /\ engPc' = "idle"
            /\ engBatches' = <<>>
    /\ UNCHANGED <<selVars, enforcement, calls, now, dbVars, api, histVars, notifications>>

\* ------------------------------------------------------- event handlers
\* exec_event's handling of InvalidStatus: UNDONE while
\* utcnow() < event.time + event_max_retries * 10 s, ERROR after. The clock
\* of the model counts minutes, so within the minute `now` both sides of the
\* window are possible when some second of it lies on that side.
RetryWindow_Always(max_retries, time) == {"UNDONE"}

RetryWindow(max_retries, time) ==
    (IF 60 * (now - time) < 10 * max_retries THEN {"UNDONE"} ELSE {})
    \cup (IF 60 * (now - time) + 59 >= 10 * max_retries THEN {"ERROR"} ELSE {})

\* An exec_event that leaves the event of a refused handler as it found it.
RetryOutcomes_Unrecorded(time) == {"IN_PROGRESS"}

RetryOutcomes(time) == RetryWindow(event_max_retries, time)

\* status.reservation.is_valid_transition, for the two transitions
\* basic_action asks for.
ReservationMay_Any(from, to) == TRUE

ReservationMay(from, to) ==
    CASE to = "ACTIVE" -> from = "PENDING"
      [] to = "DELETED" -> from = "ACTIVE"
      [] OTHER -> FALSE

\* The reservation status basic_action is called with (None for before_end).
ReservationTarget_StartOnly(op) ==
    CASE op = "start_lease" -> "ACTIVE"
      [] OTHER -> "NONE"

ReservationTarget(op) ==
    CASE op = "start_lease" -> "ACTIVE"
      [] op = "end_lease" -> "DELETED"
      [] OTHER -> "NONE"

\* The handler is entered: the lease_status wrapper of start_lease and
\* end_lease moves the lease into the transition or raises InvalidStatus,
\* which exec_event turns into a retry or an ERROR; before_end_lease has no
\* wrapper and goes straight to basic_action.
HandlerEnter(e) ==
    /\ workers[e].pc = "spawned"
    /\ LET ev == workers[e].event
           op == ev.event_type
           l == ev.lease_id
       IN  IF TransitionOf(op) = "NONE"
           THEN /\ workers' = [workers EXCEPT ![e].pc = "body"]
                /\ hStarted' = hStarted \cup {e}
                /\ UNCHANGED <<leases, events>>
           ELSE IF ~LeaseExists(l)
           THEN /\ workers' = [workers EXCEPT ![e].pc = "finished",
                                              ![e].raised = "Exception"]
                /\ events' = event_update(events, e, "ERROR")
                /\ UNCHANGED <<leases, hStarted>>
           ELSE IF MayEnter(op, leases[l].status)
           THEN /\ leases' = [leases EXCEPT ![l].status = TransitionOf(op)]
                /\ workers' = [workers EXCEPT ![e].pc = "body"]
                /\ hStarted' = hStarted \cup {e}
                /\ UNCHANGED events
           ELSE /\ \E st \in RetryOutcomes(ev.time) :
                      events' = event_update(events, e, st)
                /\ workers' = [workers EXCEPT ![e].pc = "finished",
                                              ![e].raised = "InvalidStatus"]
                /\ UNCHANGED <<leases, hStarted>>
    /\ UNCHANGED <<selVars, enforcement, calls, now, reservations, allocations, hosts, engPc, engBatches,
                   engB, engI, api, hFinished, notifications>>

\* The reservations of lease l whose plugin callback basic_action calls:
\* those that may go to the target status, all of them when there is none.
Called(l, target) ==
    {r \in ReservationsOfLease(l) :
        target = "NONE" \/ ReservationMay(reservations[r].status, target)}

\* What a plugin callback may raise: InvalidStatus or anything else.
PluginExceptions == {"InvalidStatus", "NovaException"}

\* send_notification: the notifications sent, with 'lease.<name>' for lease l.
Notified(name, l) == notifications \cup {<<name, l>>}

\* The notification exec_event sends when the handler returned.
EventNotification(op) ==
    CASE op = "start_lease" -> "lease.event.start_lease"
      [] op = "end_lease" -> "lease.event.end_lease"
      [] OTHER -> "lease.event.before_end_lease"

\* An operation that lets the exception of enforcement.on_end through.
on_end_failure_aborts_Uncaught(outcome) == outcome = "raised"

\* try: enforcement.on_end(...) except Exception: LOG.error: no outcome of
\* on_end ends the operation.
on_end_failure_aborts(outcome) == FALSE

\* What a call of enforcement.on_end may do: run the filters and return, or
\* raise; "none" stands for the call that is not made or has no filter to run.
EnforcementOutcomes(called) ==
    IF called /\ enforcement.enabled_filters THEN {"returned", "raised"} ELSE {"none"}

\* The enforcement after a call of on_end for lease l with that outcome.
EnforcementOnEnd(l, outcome) ==
    IF outcome = "none" THEN enforcement
    ELSE [enforcement EXCEPT !.on_end[l] = Append(@, outcome)]

\* basic_action: the plugin callback of every reservation of the lease (any
\* of them may raise), the reservation statuses, then the event's status.
\* Without a wrapper around it (before_end_lease) exec_event ends here, with
\* the notification of the event.
\* Until the wrapper's exit the worker keeps what basic_action caught from
\* the plugins and, when that is InvalidStatus, on which side of the retry
\* window the clock stood.
HandlerBody(e) ==
    /\ workers[e].pc = "body"
    /\ LET ev == workers[e].event
           op == ev.event_type
           l == ev.lease_id
           target == ReservationTarget(op)
       IN  IF ~LeaseExists(l)
           THEN /\ workers' = [workers EXCEPT ![e].pc = "finished",
                                              ![e].raised = "Exception"]
                /\ events' = event_update(events, e, "ERROR")
                /\ hFinished' = hFinished \cup {e}
                /\ UNCHANGED <<reservations, notifications, enforcement>>
           ELSE \E outcome \in EnforcementOutcomes(op = "end_lease") :
                IF on_end_failure_aborts(outcome)
                THEN /\ enforcement' = EnforcementOnEnd(l, outcome)
                     /\ events' = event_update(events, e, "ERROR")
                     /\ workers' = [workers EXCEPT ![e].pc = "exit",
                                                   ![e].caught = "NotAuthorized"]
                     /\ UNCHANGED <<reservations, hFinished, notifications>>
                ELSE
                \E raising \in SUBSET Called(l, target),
                   exc \in PluginExceptions, side \in RetryOutcomes(ev.time) :
                  LET caught == IF raising = {} THEN "NONE" ELSE exc
                      retry == IF caught = "InvalidStatus" THEN side ELSE "NONE"
                      failed == {r \in ReservationsOfLease(l) :
                                    \/ r \in raising
                                    \/ /\ target # "NONE"
                                       /\ ~ReservationMay(reservations[r].status, target)}
                  IN  /\ enforcement' = EnforcementOnEnd(l, outcome)
                      /\ reservations' = [r \in ResIds |->
                            IF r \in failed
                            THEN [reservations[r] EXCEPT !.status = "ERROR"]
                            ELSE IF r \in ReservationsOfLease(l) /\ target # "NONE"
                            THEN [reservations[r] EXCEPT !.status = target]
                            ELSE reservations[r]]
                      /\ events' = event_update(events, e,
                                        IF failed = {} THEN "DONE" ELSE "ERROR")
                      /\ IF TransitionOf(op) = "NONE"
                         THEN /\ workers' = [workers EXCEPT ![e].pc = "finished"]
                              /\ hFinished' = hFinished \cup {e}
                              /\ notifications' = Notified(EventNotification(op), l)
                         ELSE /\ workers' = [workers EXCEPT ![e].pc = "exit",
                                                            ![e].caught = caught,
                                                            ![e].retry = retry]
                              /\ UNCHANGED <<hFinished, notifications>>
    /\ UNCHANGED <<selVars, calls, now, leases, allocations, hosts, engPc, engBatches, engB,
                   engI, api, hStarted>>

\* The wrapper's exit: the lease gets its stable status; the handler has
\* returned and exec_event sends the notification of the event.
HandlerExit(e) ==
    /\ workers[e].pc = "exit"
    /\ LET ev == workers[e].event
           l == ev.lease_id
       IN  IF LeaseExists(l)
           THEN /\ leases' = [leases EXCEPT ![l].status =
                               ResultStatus(ev.event_type, "NONE", events[e].status)]
                /\ notifications' = Notified(EventNotification(ev.event_type), l)
           ELSE UNCHANGED <<leases, notifications>>
    /\ workers' = [workers EXCEPT ![e].pc = "finished", ![e].caught = "NONE",
                                  ![e].retry = "NONE"]
    /\ hFinished' = hFinished \cup {e}
    /\ UNCHANGED <<selVars, enforcement, calls, now, reservations, events, allocations, hosts, engPc,
                   engBatches, engB, engI, api, hStarted>>

\* utcnow() moves on.
AdvanceClock ==
    /\ now < MaxDate
    /\ now' = now + 1
    /\ UNCHANGED <<selVars, enforcement, calls, dbVars, engVars, api, histVars, notifications>>

\* ------------------------------------------------------------ API calls
\* The exceptions update_lease declares non fatal.
UpdateNonFatal ==
    {"InvalidInput", "InvalidRange", "MissingParameter", "MalformedRequirements",
     "MalformedParameter", "NotEnoughResourcesAvailable", "InvalidDate",
     "CantUpdateParameter", "InvalidPeriod"}

NonFatal_EventErrorToo(op) ==
    IF op = "update_lease" THEN UpdateNonFatal ELSE {"EventError"}

NonFatal(op) == IF op = "update_lease" THEN UpdateNonFatal ELSE {}

\* A call that ended raising exc (or returning, "NONE"): its locals are gone.
Returned(op, l, exc) ==
    [IdleCall EXCEPT !.op = op, !.pc = "returned", !.lease_id = l, !.raised = exc]

\* The RPC server hands a request to a free worker thread; the threads are
\* alike, so the lowest free one is taken.
FreeThread(p) == api[p].pc = "idle" /\ \A q \in 1..(p - 1) : api[q].pc # "idle"

\* The name, dates, event times and allocations of lease l.
SnapshotOf(l) ==
    [name |-> leases[l].name,
     start_date |-> leases[l].start_date, end_date |-> leases[l].end_date,
     times |-> {<<e, events[e].time>> : e \in EventsOfLease(l)},
     allocs |-> {a \in allocations : a[1] \in ReservationsOfLease(l)}]

\* The lease_status wrapper around an API operation, on entry: the lease
\* moves from a stable status into the transition, or the call fails with
\* InvalidStatus.
GuardEnter(p, op, l, v) ==
    /\ FreeThread(p)
    /\ calls < MaxCalls
    /\ calls' = calls + 1
    /\ LeaseExists(l)
    /\ IF MayEnter(op, leases[l].status)
       THEN /\ leases' = [leases EXCEPT ![l].status = TransitionOf(op)]
            /\ api' = [api EXCEPT ![p] =
                         [IdleCall EXCEPT !.op = op, !.pc = "body", !.lease_id = l,
                                          !.original_status = leases[l].status,
                                          !.values = v,
                                          !.before = IF op = "update_lease"
                                                     THEN SnapshotOf(l)
                                                     ELSE NoSnapshot]]
       ELSE /\ api' = [api EXCEPT ![p] = Returned(op, l, "InvalidStatus")]
            /\ UNCHANGED leases
    /\ UNCHANGED <<selVars, enforcement, now, reservations, events, allocations, hosts,
                   engVars, histVars, notifications>>

\* The wrapper on exit: back to the status found on a non fatal exception,
\* ERROR on any other, the operation's stable result when it returned; a
\* lease whose row is gone is left alone.
GuardExit(p) ==
    /\ api[p].pc = "exit"
    /\ LET c == api[p]
           l == c.lease_id
       IN  leases' =
             IF ~LeaseExists(l) THEN leases
             ELSE IF c.raised = "NONE"
             THEN [leases EXCEPT ![l].status = ResultStatus(c.op, c.original_status, "NONE")]
             ELSE IF c.raised \in NonFatal(c.op)
             THEN [leases EXCEPT ![l].status = c.original_status]
             ELSE [leases EXCEPT ![l].status = "ERROR"]
    /\ api' = [api EXCEPT ![p] = Returned(api[p].op, api[p].lease_id, api[p].raised)]
    /\ UNCHANGED <<selVars, enforcement, calls, now, reservations, events, allocations, hosts,
                   engVars, histVars, notifications>>

\* The caller has its answer.
ApiReturn(p) ==
    /\ api[p].pc = "returned"
    /\ api' = [api EXCEPT ![p] = IdleCall]
    /\ UNCHANGED <<selVars, enforcement, calls, now, dbVars, engVars, histVars, notifications>>

\* parse_lease_dates: 'now' is the current minute, any other date its value.
parse_date(d) == IF d = NOW THEN now ELSE d

\* check_for_invalid_date_inputs: TRUE when it raises InvalidInput.
check_for_invalid_date_inputs(lease, start_date, end_date) ==
    \/ lease.start_date < now /\ start_date # lease.start_date
    \/ lease.start_date > now /\ start_date < now
    \/ lease.end_date < now
    \/ end_date < now
    \/ end_date < start_date

\* check_date_within_lease_limits: TRUE when the date is inside the lease.
check_date_within_lease_limits(date, start_date, end_date) ==
    start_date < date /\ date < end_date

\* db_api.lease_create and lease_update refuse a name another lease has.
NameTaken(l, name) ==
    \E m \in LeaseIds : m # l /\ LeaseExists(m) /\ leases[m].name = name

update_lease(p, l, v) == GuardEnter(p, "update_lease", l, v)

\* len(values) == 1 and 'name' in values: the fast path of a rename.
is_name_only_Never(v) == FALSE

is_name_only(v) == v.name # "NONE" /\ v = [NoValues EXCEPT !.name = v.name]

\* update_lease up to the enforcement check: the two fast paths (no values,
\* a name alone) and the validation of the new dates.
UpdateLeaseBody(p) ==
    /\ api[p].op = "update_lease"
    /\ api[p].pc = "body"
    /\ LET c == api[p]
           v == c.values
           l == c.lease_id
           lease == leases[l]
           start_date == IF v.start_date = ABSENT THEN lease.start_date
                         ELSE parse_date(v.start_date)
           end_date == IF v.end_date = ABSENT THEN lease.end_date
                       ELSE parse_date(v.end_date)
       IN  IF v = NoValues
           THEN /\ api' = [api EXCEPT ![p].pc = "exit"]
                /\ UNCHANGED leases
           ELSE IF is_name_only(v)
           THEN IF NameTaken(l, v.name)
                THEN /\ api' = [api EXCEPT ![p].pc = "exit",
                                           ![p].raised = "BlazarDBDuplicateEntry"]
                     /\ UNCHANGED leases
                ELSE /\ leases' = [leases EXCEPT ![l].name = v.name]
                     /\ api' = [api EXCEPT ![p].pc = "exit"]
           ELSE /\ UNCHANGED leases
                /\ IF check_for_invalid_date_inputs(lease, start_date, end_date)
                   THEN api' = [api EXCEPT ![p].pc = "exit",
                                           ![p].raised = "InvalidInput"]
                   ELSE IF /\ v.before_end_date # ABSENT
                           /\ ~check_date_within_lease_limits(
                                   v.before_end_date, start_date, end_date)
                   THEN api' = [api EXCEPT ![p].pc = "exit",
                                           ![p].raised = "NotAuthorized"]
                   ELSE api' = [api EXCEPT ![p].pc = "reservations",
                                           ![p].start_date = start_date,
                                           ![p].end_date = end_date,
                                           ![p].before_end_date = v.before_end_date]
    /\ UNCHANGED <<selVars, enforcement, calls, now, reservations, events, allocations, hosts,
                   engVars, histVars, notifications>>

delete_lease(p, l) == GuardEnter(p, "delete_lease", l, NoValues)

\* delete_lease up to the teardown: the lease's start and end events are
\* loaded; a lease that started and has not ended gets its end_lease event
\* marked IN_PROGRESS.
DeleteLeaseBody(p) ==
    /\ api[p].op = "delete_lease"
    /\ api[p].pc = "body"
    /\ LET l == api[p].lease_id
           start_event == event_get_first(l, "start_lease")
           end_event == event_get_first(l, "end_lease")
       IN  IF start_event = 0 \/ end_event = 0
           THEN /\ api' = [api EXCEPT ![p].pc = "exit", ![p].raised = "BlazarException"]
                /\ UNCHANGED <<events, enforcement>>
           ELSE LET end_lease == /\ events[start_event].status # "UNDONE"
                                 /\ events[end_event].status = "UNDONE"
                    lease_not_started == events[start_event].status = "UNDONE"
                    lease_not_ended == events[end_event].status = "UNDONE"
                IN  /\ events' = IF end_lease
                                 THEN event_update(events, end_event, "IN_PROGRESS")
                                 ELSE events
                    /\ \E outcome \in
                             EnforcementOutcomes(lease_not_started \/ lease_not_ended) :
                          /\ enforcement' = EnforcementOnEnd(l, outcome)
                          /\ api' = IF on_end_failure_aborts(outcome)
                                    THEN [api EXCEPT ![p].pc = "exit",
                                                     ![p].raised = "NotAuthorized"]
                                    ELSE [api EXCEPT ![p].pc = "teardown",
                                                     ![p].end_lease = end_lease]
    /\ UNCHANGED <<selVars, calls, now, leases, reservations, allocations, hosts,
                   engVars, histVars, notifications>>

\* delete_lease, the teardown: plugin.on_end of every reservation that is
\* not DELETED; when one of them raised, EventError; otherwise the end_lease
\* event is DONE and the lease is destroyed.
DeleteLeaseTeardown(p) ==
    /\ api[p].op = "delete_lease"
    /\ api[p].pc = "teardown"
    /\ LET l == api[p].lease_id
           live == {r \in ReservationsOfLease(l) : reservations[r].status # "DELETED"}
       IN  \E unclean_end \in {u \in BOOLEAN : u => live # {}} :
              IF unclean_end
              THEN /\ api' = [api EXCEPT ![p].pc = "exit", ![p].raised = "EventError"]
                   /\ UNCHANGED <<dbVars, notifications>>
              ELSE /\ api' = [api EXCEPT ![p].pc = "exit"]
                   /\ DestroyLease(l)
                   /\ notifications' = Notified("lease.delete", l)
    /\ UNCHANGED <<selVars, enforcement, calls, now, engVars, histVars>>

\* ------------------------------------------------------------ SpecEngine
\* The engine, its workers and API calls on leases that exist already: every
\* lease was created PENDING with its events UNDONE, one reservation and one
\* host; the clock stands before the first start date.
StartEventOf(l) == 4 * (l - 1) + 1
EndEventOf(l) == 4 * (l - 1) + 2
BeforeEndEventOf(l) == 4 * (l - 1) + 3

EngLeaseShapes ==
    {sh \in [start_date : 1..MaxDate, end_date : 1..MaxDate,
             before_end : {ABSENT} \cup 1..MaxDate] :
        /\ sh.start_date < sh.end_date
        /\ sh.before_end # ABSENT => sh.start_date <= sh.before_end
                                     /\ sh.before_end < sh.end_date}

\* The system with the leases of L in the tables.
SystemWith(L) ==
    /\ SelIdle
    /\ now = 0
    /\ \E shape \in [L -> EngLeaseShapes] :
          /\ leases = [l \in LeaseIds |->
                         IF l \in L
                         THEN [status |-> "PENDING",
                               name |-> IF l = 1 THEN "a" ELSE "b",
                               start_date |-> shape[l].start_date,
                               end_date |-> shape[l].end_date]
                         ELSE NoLease]
          /\ events = [e \in EventIds |->
                LET l == ((e - 1) \div 4) + 1
                IN  IF l \notin L THEN NoEvent
                    ELSE IF e = StartEventOf(l)
                    THEN [lease_id |-> l, event_type |-> "start_lease",
                          time |-> shape[l].start_date, status |-> "UNDONE"]
                    ELSE IF e = EndEventOf(l)
                    THEN [lease_id |-> l, event_type |-> "end_lease",
                          time |-> shape[l].end_date, status |-> "UNDONE"]
                    ELSE IF e = BeforeEndEventOf(l) /\ shape[l].before_end # ABSENT
                    THEN [lease_id |-> l, event_type |-> "before_end_lease",
                          time |-> shape[l].before_end, status |-> "UNDONE"]
                    ELSE NoEvent]
    /\ reservations = [r \in ResIds |->
                         IF r \in L
                         THEN [lease_id |-> r, resource_type |-> "physical:host",
                               status |-> "PENDING"]
                         ELSE NoReservation]
    /\ allocations = {<<r, r>> : r \in L}
    /\ hosts = L
    /\ engPc = "idle"
    /\ engBatches = <<>>
    /\ engB = 0
    /\ engI = 0
    /\ workers = [e \in EventIds |-> NoWorker]
    /\ api = [p \in ApiProcs |-> IdleCall]
    /\ calls = 0
    /\ hStarted = {}
    /\ hFinished = {}
    /\ notifications = {}

EngInit == SystemWith(LeaseIds)

EngNext ==
    \/ AdvanceClock
    \/ Tick
    \/ Dispatch
    \/ WaitBatch
    \/ \E e \in EventIds : HandlerEnter(e)
    \/ \E e \in EventIds : HandlerBody(e)
    \/ \E e \in EventIds : HandlerExit(e)

SpecEngine == EngInit /\ [][EngNext]_vars

\* ------------------------------------------------------------- SpecGuard
\* The engine and the API calls that rename and delete, on one lease.
GuardLeases == {1}
GuardUpdateValues == {[NoValues EXCEPT !.name = "b"]}

GuardInit == SystemWith(GuardLeases)

GuardNext ==
    \/ EngNext
    \/ \E p \in ApiProcs, l \in GuardLeases, v \in GuardUpdateValues : update_lease(p, l, v)
    \/ \E p \in ApiProcs : UpdateLeaseBody(p)
    \/ \E p \in ApiProcs, l \in GuardLeases : delete_lease(p, l)
    \/ \E p \in ApiProcs : DeleteLeaseBody(p)
    \/ \E p \in ApiProcs : DeleteLeaseTeardown(p)
    \/ \E p \in ApiProcs : GuardExit(p)
    \/ \E p \in ApiProcs : ApiReturn(p)

SpecGuard == GuardInit /\ [][GuardNext]_vars

\* ----------------------------------------------------------- host plugin
\* The period a reservation holds its hosts for: the dates of its lease.
PeriodOf(r) ==
    LET l == reservations[r].lease_id
    IN  [start_date |-> leases[l].start_date, end_date |-> leases[l].end_date]

\* Two periods share more than an instant.
Overlap(s1, e1, s2, e2) == s1 < e2 /\ s2 < e1

\* db_utils.get_free_periods(host, start, end, end - start) = [(start, end)]:
\* no reservation allocated on the host holds it inside the window. The
\* reservations in but are left out of the test.
HostFree(h, s, e, but) ==
    \A a \in allocations :
        (a[2] = h /\ a[1] \notin but /\ reservations[a[1]].status # "NONE") =>
            ~Overlap(PeriodOf(a[1]).start_date, PeriodOf(a[1]).end_date, s, e)

\* matching_hosts for the count range '1-1': the hosts the shuffle may put
\* first, the hosts without any allocation when there is one, the allocated
\* hosts that are free in the window (with its cleaning margin) otherwise.
matching_hosts(start_date, end_date) ==
    LET start_date_with_margin == start_date - cleaning_time
        end_date_with_margin == end_date + cleaning_time
        not_allocated_host_ids ==
            {h \in hosts : ~\E a \in allocations : a[2] = h}
        allocated_host_ids ==
            {h \in hosts \ not_allocated_host_ids :
                HostFree(h, start_date_with_margin, end_date_with_margin, {})}
    IN  IF not_allocated_host_ids # {} THEN not_allocated_host_ids
        ELSE allocated_host_ids

\* allocations_to_remove, for a reservation whose dates are extended: the
\* allocations on a host where the new window meets a period that is not
\* the reservation's own.
allocations_to_remove(r, start_date, end_date) ==
    {a \in allocations : a[1] = r /\ ~HostFree(a[2], start_date, end_date, {r})}

\* The first free row of a table (ids are generated, never taken twice at
\* one time).
FreeLeaseId ==
    CHOOSE l \in LeaseIds : ~LeaseExists(l) /\ \A m \in 1..(l - 1) : LeaseExists(m)
FreeResId ==
    CHOOSE r \in ResIds : /\ reservations[r].status = "NONE"
                          /\ \A q \in 1..(r - 1) : reservations[q].status # "NONE"

\* ------------------------------------------------------------ create_lease
\* An event date that is taken as it comes, also before the start of the lease.
update_before_end_event_date_Unclamped(before_end_date, start_date) == before_end_date

\* update_before_end_event_date: the event is not set before the lease starts.
update_before_end_event_date(before_end_date, start_date) ==
    IF before_end_date < start_date THEN start_date ELSE before_end_date

\* The before_end_lease event create_lease appends: at the date the caller
\* gave, or minutes_before_end_lease before the end; none when neither.
before_end_events(before_end_date, start_date, end_date) ==
    IF before_end_date # ABSENT
    THEN <<[event_type |-> "before_end_lease",
            time |-> update_before_end_event_date(before_end_date, start_date)]>>
    ELSE IF minutes_before_end_lease > 0
    THEN <<[event_type |-> "before_end_lease",
            time |-> update_before_end_event_date(
                         end_date - minutes_before_end_lease, start_date)]>>
    ELSE <<>>

\* create_lease's checks of the parsed dates: TRUE when it raises InvalidInput.
invalid_create_dates_EndNotChecked(start_date, end_date) == start_date < now

invalid_create_dates(start_date, end_date) ==
    start_date < now \/ end_date <= start_date

\* create_lease up to the first write: the dates are parsed and checked, the
\* plugin is asked for candidates, the list of events is put together from
\* the caller's 'events', the start and end events and the before_end event.
create_lease(p, v) ==
    /\ FreeThread(p)
    /\ calls < MaxCalls
    /\ calls' = calls + 1
    /\ LET start_date == parse_date(v.start_date)
           end_date == parse_date(v.end_date)
           raised ==
               IF invalid_create_dates(start_date, end_date) THEN "InvalidInput"
               ELSE IF matching_hosts(start_date, end_date) = {}
               THEN "NotEnoughResourcesAvailable"
               ELSE IF /\ v.before_end_date # ABSENT
                       /\ ~check_date_within_lease_limits(
                               v.before_end_date, start_date, end_date)
               THEN "NotAuthorized"
               ELSE "NONE"
       IN  api' = [api EXCEPT ![p] =
                IF raised # "NONE" THEN Returned("create_lease", 0, raised)
                ELSE [IdleCall EXCEPT
                        !.op = "create_lease", !.pc = "lease_create",
                        !.values = [v EXCEPT !.events = <<>>],
                        !.start_date = start_date, !.end_date = end_date,
                        !.events = v.events
                            \o <<[event_type |-> "start_lease", time |-> start_date],
                                 [event_type |-> "end_lease", time |-> end_date]>>
                            \o before_end_events(v.before_end_date, start_date,
                                                 end_date)]]
    /\ UNCHANGED <<selVars, enforcement, now, dbVars, engVars, histVars, notifications>>

\* db_api.lease_create: the row, in status CREATING, or LeaseNameAlreadyExists.
CreateLeaseRow(p) ==
    /\ api[p].op = "create_lease"
    /\ api[p].pc = "lease_create"
    /\ IF NameTaken(0, api[p].values.name)
       THEN /\ api' = [api EXCEPT ![p] =
                         Returned("create_lease", 0, "LeaseNameAlreadyExists")]
            /\ UNCHANGED leases
       ELSE /\ \E l \in LeaseIds : ~LeaseExists(l)
            /\ leases' = [leases EXCEPT ![FreeLeaseId] =
                            [status |-> "CREATING", name |-> api[p].values.name,
                             start_date |-> api[p].start_date,
                             end_date |-> api[p].end_date]]
            /\ api' = [api EXCEPT ![p].pc = "reserve", ![p].lease_id = FreeLeaseId]
    /\ UNCHANGED <<selVars, enforcement, calls, now, reservations, events, allocations, hosts,
                   engVars, histVars, notifications>>

\* create_reservation up to the plugin's call of Nova: the reservation row
\* is written and reserve_resource reads the candidates; without one the
\* lease is destroyed and the exception goes to the caller.
CreateReservation(p) ==
    /\ api[p].op = "create_lease"
    /\ api[p].pc = "reserve"
    /\ LET l == api[p].lease_id
           host_ids == matching_hosts(api[p].start_date, api[p].end_date)
       IN  IF host_ids = {}
           THEN /\ DestroyLease(l)
                /\ api' = [api EXCEPT ![p] =
                        Returned("create_lease", 0, "NotEnoughResourcesAvailable")]
           ELSE /\ reservations' = [reservations EXCEPT ![FreeResId] =
                        [lease_id |-> l, resource_type |-> "physical:host",
                         status |-> "PENDING"]]
                /\ \E h \in host_ids :
                      api' = [api EXCEPT ![p].pc = "allocate",
                                         ![p].res_id = FreeResId,
                                         ![p].host_ids = {h}]
                /\ UNCHANGED <<leases, events, allocations, hosts>>
    /\ UNCHANGED <<selVars, enforcement, calls, now, engVars, histVars, notifications>>

\* reserve_resource from its call of Nova on: pool.create may raise, and
\* create_lease then destroys the lease; otherwise the hosts read before the
\* call are allocated to the reservation.
ReserveResource(p) ==
    /\ api[p].op = "create_lease"
    /\ api[p].pc = "allocate"
    /\ \E pool_created \in BOOLEAN :
          IF pool_created
          THEN /\ allocations' = allocations
                     \cup {<<api[p].res_id, h>> : h \in api[p].host_ids}
               /\ api' = [api EXCEPT ![p].pc = "events"]
               /\ UNCHANGED <<leases, reservations, events, hosts>>
          ELSE /\ DestroyLease(api[p].lease_id)
               /\ api' = [api EXCEPT ![p] =
                            Returned("create_lease", 0, "NovaException")]
    /\ UNCHANGED <<selVars, enforcement, calls, now, engVars, histVars, notifications>>

\* The rows of the event table a lease's events are written to, in the order
\* of the list.
EventRow(l, i) == 4 * (l - 1) + i

\* An item of the caller's 'events' that is no dict.
NotADict == [event_type |-> "NOT_A_DICT", time |-> 0]

\* The items of the list before its first item that is no dict.
WrittenBefore(evs) ==
    {i \in DOMAIN evs : \A j \in 1..i : evs[j] # NotADict}

\* The events are written one by one, all UNDONE, and the lease becomes
\* PENDING. event_create may raise a BlazarException, and the lease is
\* destroyed; an item that is no dict raises TypeError where it is given its
\* lease_id, which create_lease does not catch.
CreateEvents(p) ==
    /\ api[p].op = "create_lease"
    /\ api[p].pc = "events"
    /\ LET l == api[p].lease_id
           evs == api[p].events
           written == [e \in EventIds |->
                 IF \E i \in WrittenBefore(evs) : e = EventRow(l, i)
                 THEN LET i == CHOOSE i \in DOMAIN evs : e = EventRow(l, i)
                      IN  [lease_id |-> l, event_type |-> evs[i].event_type,
                           time |-> evs[i].time, status |-> "UNDONE"]
                 ELSE events[e]]
       IN  \E event_created \in BOOLEAN :
              IF ~event_created
              THEN /\ DestroyLease(l)
                   /\ api' = [api EXCEPT ![p] =
                                Returned("create_lease", 0, "BlazarDBException")]
                   /\ UNCHANGED notifications
              ELSE IF WrittenBefore(evs) # DOMAIN evs
              THEN /\ events' = written
                   /\ api' = [api EXCEPT ![p] =
                                Returned("create_lease", l, "TypeError")]
                   /\ UNCHANGED <<leases, reservations, allocations, hosts,
                                  notifications>>
              ELSE /\ events' = written
                   /\ leases' = [leases EXCEPT ![l].status = "PENDING"]
                   /\ api' = [api EXCEPT ![p] = Returned("create_lease", l, "NONE")]
                   /\ notifications' = Notified("lease.create", l)
                   /\ UNCHANGED <<reservations, allocations, hosts>>
    /\ UNCHANGED <<selVars, enforcement, calls, now, engVars, histVars>>

\* ------------------------------------------------- update_lease, the writes
\* The reservations of lease l the loop of update_lease has yet to update,
\* after reservation `done` (0 before the first).
ReservationsAfter(l, done) == {r \in ReservationsOfLease(l) : r > done}

\* One round of the loop over the lease's reservations:
\* plugin.update_reservation does nothing when the new dates lie within the
\* lease's; otherwise update_allocations drops the allocations the new
\* window cannot keep (refusing when the reservation is active), finds a
\* host for the reservation if none is kept and raises
\* NotEnoughHostsAvailable, a NotEnoughResourcesAvailable, when there is
\* none. What was written for the reservations before stays written.
UpdateReservation(p) ==
    /\ api[p].op = "update_lease"
    /\ api[p].pc = "reservations"
    /\ LET c == api[p]
           l == c.lease_id
           lease == leases[l]
           todo == ReservationsAfter(l, c.res_id)
           r == CHOOSE r \in todo : \A q \in todo : r <= q
           failure == [api EXCEPT ![p].pc = "exit", ![p].res_id = 0,
                                  ![p].raised = "NotEnoughResourcesAvailable"]
           success == IF todo \ {r} = {}
                      THEN [api EXCEPT ![p].pc = "events", ![p].res_id = 0]
                      ELSE [api EXCEPT ![p].res_id = r]
       IN  IF todo = {}
           THEN /\ api' = [api EXCEPT ![p].pc = "events", ![p].res_id = 0]
                /\ UNCHANGED allocations
           ELSE IF c.start_date >= lease.start_date /\ c.end_date <= lease.end_date
           THEN api' = success /\ UNCHANGED allocations
           ELSE LET allocs == {a \in allocations : a[1] = r}
                    allocs_to_remove ==
                        allocations_to_remove(r, c.start_date, c.end_date)
                    kept_hosts == Cardinality(allocs) - Cardinality(allocs_to_remove)
                    host_ids == matching_hosts(c.start_date, c.end_date)
                IN  IF allocs_to_remove # {} /\ reservations[r].status = "ACTIVE"
                    THEN api' = failure /\ UNCHANGED allocations
                    ELSE IF kept_hosts >= 1
                    THEN /\ api' = success
                         /\ allocations' = allocations \ allocs_to_remove
                    ELSE IF host_ids = {}
                    THEN api' = failure /\ UNCHANGED allocations
                    ELSE /\ api' = success
                         /\ \E h \in host_ids :
                              allocations' =
                                  (allocations \cup {<<r, h>>}) \ allocs_to_remove
    /\ UNCHANGED <<selVars, enforcement, calls, now, leases, reservations, events, hosts, engVars,
                   histVars, notifications>>

\* update_before_end_event: the time the lease's before_end_lease event gets,
\* the date given or the one as long before the new end as it was before the
\* old one; a DONE event becomes UNDONE.
update_before_end_event(tbl, old_lease, l, start_date, end_date, before_end_date) ==
    LET event == event_get_first(l, "before_end_lease")
        prev_before_end_delta == old_lease.end_date - tbl[event].time
        date == IF before_end_date = ABSENT
                THEN end_date - prev_before_end_delta
                ELSE before_end_date
    IN  IF event = 0 THEN tbl
        ELSE [tbl EXCEPT
                ![event].time = update_before_end_event_date(date, start_date),
                ![event].status = IF @ = "DONE" THEN "UNDONE" ELSE @]

\* update_lease from the event updates to its end: the start_lease and
\* end_lease events get the new dates, the before_end_lease event its new
\* time, then lease_update writes the values; a name that is taken makes
\* lease_update raise after the events were written.
UpdateEventsAndLease(p) ==
    /\ api[p].op = "update_lease"
    /\ api[p].pc = "events"
    /\ LET c == api[p]
           l == c.lease_id
           start_event == event_get_first(l, "start_lease")
           end_event == event_get_first(l, "end_lease")
           started == [events EXCEPT ![start_event].time = c.start_date]
           ended == [started EXCEPT ![end_event].time = c.end_date]
           before_end_event == event_get_first(l, "before_end_lease")
           stopped == IF before_end_event # 0
                         /\ events[before_end_event].status = "DONE"
                      THEN {<<"lease.event.before_end_lease.stop", l>>}
                      ELSE {}
       IN  IF start_event = 0
           THEN /\ api' = [api EXCEPT ![p].pc = "exit",
                                      ![p].raised = "BlazarException"]
                /\ UNCHANGED <<leases, events, notifications>>
           ELSE IF end_event = 0
           THEN /\ api' = [api EXCEPT ![p].pc = "exit",
                                      ![p].raised = "BlazarException"]
                /\ events' = started
                /\ UNCHANGED <<leases, notifications>>
           ELSE /\ events' = update_before_end_event(ended, leases[l], l,
                                 c.start_date, c.end_date, c.before_end_date)
                /\ IF c.values.name # "NONE" /\ NameTaken(l, c.values.name)
                   THEN /\ api' = [api EXCEPT ![p].pc = "exit",
                                      ![p].raised = "BlazarDBDuplicateEntry"]
                        /\ UNCHANGED <<leases, notifications>>
                   ELSE /\ api' = [api EXCEPT ![p].pc = "exit"]
                        /\ leases' = [leases EXCEPT
                              ![l].name = IF c.values.name = "NONE" THEN @
                                          ELSE c.values.name,
                              ![l].start_date = c.start_date,
                              ![l].end_date = c.end_date]
                        /\ notifications' =
                              Notified("lease.update", l) \cup stopped
    /\ UNCHANGED <<selVars, enforcement, calls, now, reservations, allocations, hosts, engVars,
                   histVars>>

\* -------------------------------------------------------------- SpecLease
\* create_lease and update_lease calls, two at a time, on a deployment with
\* one compute host and no lease.
LeaseHosts == {1}

\* The requests: a reservation of one host ('1-1') in each create_lease;
\* some carry a start_lease event of the caller's, or an item that is no
\* dict, in 'events'.
CreateDates == {<<1, 2>>, <<2, 3>>, <<NOW, 2>>}

CallerEvents == {<<[event_type |-> "start_lease", time |-> MaxDate]>>, <<NotADict>>}

CreateValues ==
    {[name |-> n, start_date |-> d[1], end_date |-> d[2],
      before_end_date |-> ABSENT, events |-> <<>>,
      reservations |-> <<"physical:host">>] : n \in Names, d \in CreateDates}
    \cup {[name |-> "b", start_date |-> 1, end_date |-> 2,
           before_end_date |-> ABSENT, events |-> ev,
           reservations |-> <<"physical:host">>] : ev \in CallerEvents}

UpdateValues ==
    {[NoValues EXCEPT !.name = n, !.start_date = s, !.end_date = e,
                      !.before_end_date = b] :
        n \in {"NONE", "b"}, s \in {ABSENT}, e \in {1, 3}, b \in {ABSENT, 2}}

LeaseInit ==
    /\ SelIdle
    /\ EmptySystem
    /\ hosts = LeaseHosts

LeaseNext ==
    \/ AdvanceClock
    \/ \E p \in ApiProcs, v \in CreateValues : create_lease(p, v)
    \/ \E p \in ApiProcs : CreateLeaseRow(p)
    \/ \E p \in ApiProcs : CreateReservation(p)
    \/ \E p \in ApiProcs : ReserveResource(p)
    \/ \E p \in ApiProcs : CreateEvents(p)
    \/ \E p \in ApiProcs, l \in LeaseIds, v \in UpdateValues : update_lease(p, l, v)
    \/ \E p \in ApiProcs : UpdateLeaseBody(p)
    \/ \E p \in ApiProcs : UpdateReservation(p)
    \/ \E p \in ApiProcs : UpdateEventsAndLease(p)
    \/ \E p \in ApiProcs : GuardExit(p)
    \/ \E p \in ApiProcs : ApiReturn(p)

SpecLease == LeaseInit /\ [][LeaseNext]_vars

\* ------------------------------------------------------------- SpecCreate
\* create_lease calls that give, or do not give, a before_end_date, on a
\* deployment with one compute host and no lease.  A lease may be longer than
\* minutes_before_end_lease; one request carries a before_end_lease event of
\* the caller's in 'events'.
LongLeaseEnd == minutes_before_end_lease + 3

BeforeEndCreateValues ==
    {[name |-> "a", start_date |-> 1, end_date |-> e,
      before_end_date |-> b, events |-> <<>>,
      reservations |-> <<"physical:host">>] :
        e \in {MaxDate, LongLeaseEnd}, b \in {ABSENT, 1, 2, MaxDate}}
    \cup {[name |-> "b", start_date |-> 1, end_date |-> LongLeaseEnd,
           before_end_date |-> ABSENT,
           events |-> <<[event_type |-> "before_end_lease", time |-> 2]>>,
           reservations |-> <<"physical:host">>]}

CreateNext ==
    \/ AdvanceClock
    \/ \E p \in ApiProcs, v \in BeforeEndCreateValues : create_lease(p, v)
    \/ \E p \in ApiProcs : CreateLeaseRow(p)
    \/ \E p \in ApiProcs : CreateReservation(p)
    \/ \E p \in ApiProcs : ReserveResource(p)
    \/ \E p \in ApiProcs : CreateEvents(p)
    \/ \E p \in ApiProcs : ApiReturn(p)

SpecCreate == LeaseInit /\ [][CreateNext]_vars

\* -------------------------------------------------------------- SpecMulti
\* update_lease with dates on leases of two reservations each: lease 1 holds hosts 1 and 2 over [1, 2), lease 2 holds them over
\* [2, 3), and host 3 is free.
MultiHosts == {1, 2, 3}
MultiUpdated == {1}
MultiUpdateValues ==
    {NoValues, [NoValues EXCEPT !.name = "c"],
     [NoValues EXCEPT !.end_date = MaxDate], [NoValues EXCEPT !.start_date = 2]}

MultiInit ==
    /\ SelIdle
    /\ now = 0
    /\ leases = [l \in LeaseIds |->
                   [status |-> "PENDING", name |-> IF l = 1 THEN "a" ELSE "b",
                    start_date |-> l, end_date |-> l + 1]]
    /\ events = [e \in EventIds |->
          LET l == ((e - 1) \div 4) + 1
          IN  IF e = StartEventOf(l)
              THEN [lease_id |-> l, event_type |-> "start_lease",
                    time |-> l, status |-> "UNDONE"]
              ELSE IF e = EndEventOf(l)
              THEN [lease_id |-> l, event_type |-> "end_lease",
                    time |-> l + 1, status |-> "UNDONE"]
              ELSE IF e = BeforeEndEventOf(l)
              THEN [lease_id |-> l, event_type |-> "before_end_lease",
                    time |-> l, status |-> "UNDONE"]
              ELSE NoEvent]
    /\ reservations = [r \in ResIds |->
                         [lease_id |-> ((r - 1) \div 2) + 1,
                          resource_type |-> "physical:host",
                          status |-> "PENDING"]]
    /\ allocations = {<<r, ((r - 1) % 2) + 1>> : r \in ResIds}
    /\ hosts = MultiHosts
    /\ engPc = "idle"
    /\ engBatches = <<>>
    /\ engB = 0
    /\ engI = 0
    /\ workers = [e \in EventIds |-> NoWorker]
    /\ api = [p \in ApiProcs |-> IdleCall]
    /\ calls = 0
    /\ hStarted = {}
    /\ hFinished = {}
    /\ notifications = {}

MultiNext ==
    \/ AdvanceClock
    \/ \E p \in ApiProcs, l \in MultiUpdated, v \in MultiUpdateValues :
          update_lease(p, l, v)
    \/ \E p \in ApiProcs : UpdateLeaseBody(p)
    \/ \E p \in ApiProcs : UpdateReservation(p)
    \/ \E p \in ApiProcs : UpdateEventsAndLease(p)
    \/ \E p \in ApiProcs : GuardExit(p)
    \/ \E p \in ApiProcs : ApiReturn(p)

SpecMulti == MultiInit /\ [][MultiNext]_vars

\* --------------------------------------------------------------- SpecTerm
\* The engine and update_lease with dates, on one lease over [1, 2) that has
\* two reservations, on hosts 1 and 2; host 3 is free.
TermUpdateValues ==
    {[NoValues EXCEPT !.end_date = MaxDate], [NoValues EXCEPT !.start_date = 2]}

TermInit ==
    /\ SelIdle
    /\ now = 0
    /\ leases = [l \in LeaseIds |->
                   IF l = 1
                   THEN [status |-> "PENDING", name |-> "a",
                         start_date |-> 1, end_date |-> 2]
                   ELSE NoLease]
    /\ events = [e \in EventIds |->
          IF e = StartEventOf(1)
          THEN [lease_id |-> 1, event_type |-> "start_lease",
                time |-> 1, status |-> "UNDONE"]
          ELSE IF e = EndEventOf(1)
          THEN [lease_id |-> 1, event_type |-> "end_lease",
                time |-> 2, status |-> "UNDONE"]
          ELSE IF e = BeforeEndEventOf(1)
          THEN [lease_id |-> 1, event_type |-> "before_end_lease",
                time |-> 1, status |-> "UNDONE"]
          ELSE NoEvent]
    /\ reservations = [r \in ResIds |->
                         IF r \in {1, 2}
                         THEN [lease_id |-> 1, resource_type |-> "physical:host",
                               status |-> "PENDING"]
                         ELSE NoReservation]
    /\ allocations = {<<1, 1>>, <<2, 2>>}
    /\ hosts = MultiHosts
    /\ engPc = "idle"
    /\ engBatches = <<>>
    /\ engB = 0
    /\ engI = 0
    /\ workers = [e \in EventIds |-> NoWorker]
    /\ api = [p \in ApiProcs |-> IdleCall]
    /\ calls = 0
    /\ hStarted = {}
    /\ hFinished = {}
    /\ notifications = {}

TermNext ==
    \/ EngNext
    \/ \E p \in ApiProcs, l \in GuardLeases, v \in TermUpdateValues :
          update_lease(p, l, v)
    \/ \E p \in ApiProcs : UpdateLeaseBody(p)
    \/ \E p \in ApiProcs : UpdateReservation(p)
    \/ \E p \in ApiProcs : UpdateEventsAndLease(p)
    \/ \E p \in ApiProcs : GuardExit(p)
    \/ \E p \in ApiProcs : ApiReturn(p)

SpecTerm == TermInit /\ [][TermNext]_vars

\* ---------------------------------------------------------------------------
\* The end of a lease under usage enforcement: one lease over [1, 2) with its
\* three events and two reservations in a deployment with enforcement filters; the event engine
\* starts and ends it while delete_lease calls arrive.
\* ---------------------------------------------------------------------------

EndInit ==
    /\ selInput = <<>>
    /\ selBatches = <<>>
    /\ selPc = "off"
    /\ fnCall = NoFnCall
    /\ enforcement = [NoEnforcement EXCEPT !.enabled_filters = TRUE]
    /\ now = 0
    /\ leases = [l \in LeaseIds |->
                   IF l = 1
                   THEN [status |-> "PENDING", name |-> "a",
                         start_date |-> 1, end_date |-> 2]
                   ELSE NoLease]
    /\ events = [e \in EventIds |->
          IF e = StartEventOf(1)
          THEN [lease_id |-> 1, event_type |-> "start_lease",
                time |-> 1, status |-> "UNDONE"]
          ELSE IF e = EndEventOf(1)
          THEN [lease_id |-> 1, event_type |-> "end_lease",
                time |-> 2, status |-> "UNDONE"]
          ELSE IF e = BeforeEndEventOf(1)
          THEN [lease_id |-> 1, event_type |-> "before_end_lease",
                time |-> 1, status |-> "UNDONE"]
          ELSE NoEvent]
    /\ reservations = [r \in ResIds |->
                         IF r \in {1, 2}
                         THEN [lease_id |-> 1, resource_type |-> "physical:host",
                               status |-> "PENDING"]
                         ELSE NoReservation]
    /\ allocations = {<<1, 1>>, <<2, 2>>}
    /\ hosts = MultiHosts
    /\ engPc = "idle"
    /\ engBatches = <<>>
    /\ engB = 0
    /\ engI = 0
    /\ workers = [e \in EventIds |-> NoWorker]
    /\ api = [p \in ApiProcs |-> IdleCall]
    /\ calls = 0
    /\ hStarted = {}
    /\ hFinished = {}
    /\ notifications = {}

EndNext ==
    \/ EngNext
    \/ \E p \in ApiProcs, l \in GuardLeases : delete_lease(p, l)
    \/ \E p \in ApiProcs : DeleteLeaseBody(p)
    \/ \E p \in ApiProcs : DeleteLeaseTeardown(p)
    \/ \E p \in ApiProcs : GuardExit(p)
    \/ \E p \in ApiProcs : ApiReturn(p)

SpecEnd == EndInit /\ [][EndNext]_vars

\* -------------------------------------------------------------- SpecShift
\* update_lease on a lease whose before_end_lease event is DONE: lease 1,
\* created over [0, 2) and started, its before_end_lease event (at the start
\* of the lease, minutes_before_end_lease being longer than the lease)
\* executed; lease 2, named "b", is still to start.
ShiftUpdateValues ==
    {[NoValues EXCEPT !.end_date = MaxDate],
     [NoValues EXCEPT !.end_date = MaxDate, !.name = "b"]}

ShiftInit ==
    /\ SelIdle
    /\ now = 0
    /\ leases = [l \in LeaseIds |->
                   IF l = 1
                   THEN [status |-> "ACTIVE", name |-> "a",
                         start_date |-> 0, end_date |-> 2]
                   ELSE [status |-> "PENDING", name |-> "b",
                         start_date |-> 2, end_date |-> MaxDate]]
    /\ events = [e \in EventIds |->
          LET l == ((e - 1) \div 4) + 1
          IN  IF e = StartEventOf(l)
              THEN [lease_id |-> l, event_type |-> "start_lease",
                    time |-> leases[l].start_date,
                    status |-> IF l = 1 THEN "DONE" ELSE "UNDONE"]
              ELSE IF e = EndEventOf(l)
              THEN [lease_id |-> l, event_type |-> "end_lease",
                    time |-> leases[l].end_date, status |-> "UNDONE"]
              ELSE IF e = BeforeEndEventOf(l)
              THEN [lease_id |-> l, event_type |-> "before_end_lease",
                    time |-> leases[l].start_date,
                    status |-> IF l = 1 THEN "DONE" ELSE "UNDONE"]
              ELSE NoEvent]
    /\ reservations = [r \in ResIds |->
                         IF r \in {1, 2}
                         THEN [lease_id |-> 1, resource_type |-> "physical:host",
                               status |-> "ACTIVE"]
                         ELSE IF r = 3
                         THEN [lease_id |-> 2, resource_type |-> "physical:host",
                               status |-> "PENDING"]
                         ELSE NoReservation]
    /\ allocations = {<<1, 1>>, <<2, 2>>, <<3, 3>>}
    /\ hosts = MultiHosts
    /\ engPc = "idle"
    /\ engBatches = <<>>
    /\ engB = 0
    /\ engI = 0
    /\ workers = [e \in EventIds |-> NoWorker]
    /\ api = [p \in ApiProcs |-> IdleCall]
    /\ calls = 0
    /\ hStarted = {StartEventOf(1), BeforeEndEventOf(1)}
    /\ hFinished = {StartEventOf(1), BeforeEndEventOf(1)}
    /\ notifications = {}

ShiftNext ==
    \/ AdvanceClock
    \/ \E p \in ApiProcs, l \in GuardLeases, v \in ShiftUpdateValues :
          update_lease(p, l, v)
    \/ \E p \in ApiProcs : UpdateLeaseBody(p)
    \/ \E p \in ApiProcs : UpdateReservation(p)
    \/ \E p \in ApiProcs : UpdateEventsAndLease(p)
    \/ \E p \in ApiProcs : GuardExit(p)
    \/ \E p \in ApiProcs : ApiReturn(p)

SpecShift == ShiftInit /\ [][ShiftNext]_vars

\* --------------------------------------------------------------- SpecLive
\* The engine alone, ticking for ever, with plugins whose on_start succeeds:
\* the periodic timer keeps calling the engine, the green threads it spawned
\* get to run, and the clock moves on.
OnStartSucceeds ==
    \A e \in EventIds :
        (/\ workers[e].pc = "body" /\ workers'[e].pc = "exit"
         /\ workers[e].event.event_type = "start_lease")
        => workers'[e].caught = "NONE"

\* basic_action with such plugins.
StartingHandlerBody(e) == HandlerBody(e) /\ OnStartSucceeds

LiveNext ==
    \/ AdvanceClock
    \/ Tick
    \/ Dispatch
    \/ WaitBatch
    \/ \E e \in EventIds : HandlerEnter(e)
    \/ \E e \in EventIds : StartingHandlerBody(e)
    \/ \E e \in EventIds : HandlerExit(e)

SpecLive ==
    /\ EngInit
    /\ [][LiveNext]_vars
    /\ WF_vars(LiveNext)
    /\ WF_vars(AdvanceClock)

\* ----------------------------------------------------------- SpecOrder
\* reservations_execution_ordered and the loops of basic_action and
\* delete_lease over its result.  lease['reservations'] is the list of the
\* reservations in insertion order: the id of a row is its position.
MaxReservations == 3
ResourceTypes == {"physical:host", "virtual:instance", "network"}
OrderedStatuses == {"PENDING", "ACTIVE", "DELETED"}
OrderedOps == {"start_lease", "end_lease", "before_end_lease", "delete_lease"}

LeaseReservations ==
    UNION {{[i \in 1..n |-> [id |-> i, resource_type |-> t[i], status |-> st[i]]] :
               t \in [1..n -> ResourceTypes], st \in [1..n -> OrderedStatuses]} :
           n \in 0..MaxReservations}

\* A key that does not tell the resource types apart.
sort_key_Flat(res) == 0

\* execution_order.get(res['resource_type'], execution_order['default'])
sort_key(res) == IF res.resource_type = "network" THEN 1 ELSE 0

\* sorted(list, key=sort_key): a stable sort, each element placed after the
\* elements whose key is not greater.
InsertByKey(acc, x) ==
    LET before == Cardinality({i \in DOMAIN acc : sort_key(acc[i]) <= sort_key(x)})
    IN  SubSeq(acc, 1, before) \o <<x>> \o SubSeq(acc, before + 1, Len(acc))

RECURSIVE sorted(_)
sorted(s) ==
    IF s = <<>> THEN <<>>
    ELSE InsertByKey(sorted(SubSeq(s, 1, Len(s) - 1)), s[Len(s)])

reservations_execution_ordered(lease_reservations) == sorted(lease_reservations)

\* Whether the loop calls the plugin for the reservation: delete_lease skips
\* the DELETED ones, basic_action those whose status may not move to the
\* status of the action.
CallbackInvoked(op, res) ==
    IF op = "delete_lease" THEN res.status # "DELETED"
    ELSE \/ ReservationTarget(op) = "NONE"
         \/ ReservationMay(res.status, ReservationTarget(op))

OrderInit ==
    /\ selInput = <<>>
    /\ enforcement = NoEnforcement
    /\ selBatches = <<>>
    /\ selPc = "off"
    /\ EmptySystem
    /\ hosts = {}
    /\ \E op \in OrderedOps, rs \in LeaseReservations :
          fnCall = [NoFnCall EXCEPT !.pc = "call", !.op = op, !.args = rs]

OrderReservations ==
    /\ fnCall.pc = "call"
    /\ fnCall.op \in OrderedOps
    /\ LET ordered == reservations_execution_ordered(fnCall.args)
       IN  fnCall' = [fnCall EXCEPT !.result = ordered,
                                    !.pc = IF ordered = <<>> THEN "done" ELSE "loop"]
    /\ UNCHANGED <<selInput, selBatches, selPc, enforcement, now, calls, dbVars, engVars, api,
                   histVars, notifications>>

InvokeCallback ==
    /\ fnCall.pc = "loop"
    /\ LET res == Head(fnCall.result)
           rest == Tail(fnCall.result)
       IN  fnCall' = [fnCall EXCEPT
                         !.invoked = IF CallbackInvoked(fnCall.op, res)
                                     THEN Append(fnCall.invoked, res)
                                     ELSE fnCall.invoked,
                         !.result = rest,
                         !.pc = IF rest = <<>> THEN "done" ELSE "loop"]
    /\ UNCHANGED <<selInput, selBatches, selPc, enforcement, now, calls, dbVars, engVars, api,
                   histVars, notifications>>

OrderNext == OrderReservations \/ InvokeCallback

SpecOrder == OrderInit /\ [][OrderNext]_vars

\* --------------------------------------------------------- SpecPlugins
\* get_plugins: the registry of the resource plugins, built at start-up from
\* manager.plugins and the entry points of 'blazar.resource.plugins'.
MaxEntryPoints == 3
PluginNames == {"physical.host.plugin", "virtual.instance.plugin", "dummy.vm.plugin"}
PluginResourceTypes == {"physical:host", "virtual:instance"}

\* An entry point of the namespace: its name, the resource_type of its plugin
\* class, and whether the constructor of the class returns (loads).
EntryPoints == [name : PluginNames, resource_type : PluginResourceTypes, loads : BOOLEAN]

Namespaces == UNION {[1..n -> EntryPoints] : n \in 0..MaxEntryPoints}

\* EnabledExtensionManager(check_func=lambda ext: ext.name in config_plugins)
IsEnabled(config_plugins, ext) == ext.name \in config_plugins

extensions(config_plugins, entry_points) ==
    SelectSeq(entry_points, LAMBDA ext : IsEnabled(config_plugins, ext))

\* set(config_plugins) - set([ext.name for ext in extension_manager.extensions])
invalid_plugins(config_plugins, entry_points) ==
    config_plugins \ {ext.name : ext \in Range(extensions(config_plugins, entry_points))}

\* A registry that takes any plugin, whatever is registered already.
AlreadyRegistered_Never(plugins, resource_type) == FALSE

\* plugin_obj.resource_type in plugins
AlreadyRegistered(plugins, resource_type) == \E p \in plugins : p[1] = resource_type

\* plugins[plugin_obj.resource_type] = plugin_obj, the dict a set of
\* <<resource_type, plugin>> pairs
Register(plugins, ext) ==
    {p \in plugins : p[1] # ext.resource_type} \cup {<<ext.resource_type, ext.name>>}

PluginsInit ==
    /\ selInput = <<>>
    /\ enforcement = NoEnforcement
    /\ selBatches = <<>>
    /\ selPc = "off"
    /\ EmptySystem
    /\ hosts = {}
    /\ \E cfg \in SUBSET PluginNames, ns \in Namespaces :
          fnCall = [NoFnCall EXCEPT !.pc = "call", !.op = "get_plugins",
                                    !.args = [config_plugins |-> cfg, entry_points |-> ns],
                                    !.result = {}]

\* The extensions are discovered and the configured names checked.
GetPluginsDiscover ==
    /\ fnCall.pc = "call"
    /\ fnCall.op = "get_plugins"
    /\ LET cfg == fnCall.args.config_plugins
           eps == fnCall.args.entry_points
       IN  IF invalid_plugins(cfg, eps) # {}
           THEN fnCall' = [fnCall EXCEPT !.pc = "raised", !.raised = "BlazarException"]
           ELSE fnCall' = [fnCall EXCEPT
                              !.pc = IF extensions(cfg, eps) = <<>> THEN "done" ELSE "loop"]
    /\ UNCHANGED <<selInput, selBatches, selPc, enforcement, now, calls, dbVars, engVars, api,
                   histVars, notifications>>

\* One turn of the loop: the plugin of the next extension is constructed and
\* registered under its resource_type.
GetPluginsLoad ==
    /\ fnCall.pc = "loop"
    /\ fnCall.op = "get_plugins"
    /\ LET exts == extensions(fnCall.args.config_plugins, fnCall.args.entry_points)
           ext == exts[Len(fnCall.invoked) + 1]
           last == Len(fnCall.invoked) + 1 = Len(exts)
           after == IF last THEN "done" ELSE "loop"
       IN  IF ~ext.loads
           THEN fnCall' = [fnCall EXCEPT !.invoked = Append(fnCall.invoked, ext),
                                         !.pc = after]
           ELSE IF AlreadyRegistered(fnCall.result, ext.resource_type)
           THEN fnCall' = [fnCall EXCEPT !.invoked = Append(fnCall.invoked, ext),
                                         !.pc = "raised",
                                         !.raised = "PluginConfigurationError"]
           ELSE fnCall' = [fnCall EXCEPT !.invoked = Append(fnCall.invoked, ext),
                                         !.result = Register(fnCall.result, ext),
                                         !.pc = after]
    /\ UNCHANGED <<selInput, selBatches, selPc, enforcement, now, calls, dbVars, engVars, api,
                   histVars, notifications>>

PluginsNext == GetPluginsDiscover \/ GetPluginsLoad

SpecPlugins == PluginsInit /\ [][PluginsNext]_vars

\* ------------------------------------------------------------------ C1
\* C1: for a list of due events sorted ascending by time, when a lease has a
\* start_lease event and a before_end_lease event both at the earliest time,
\* select_for_execution puts the start_lease event in a strictly earlier
\* batch than the before_end_lease event.
AtEarliest(e) == e \in Range(selInput) /\ e.time = selInput[1].time

Fetched == UNION {Range(engBatches[i]) : i \in DOMAIN engBatches}

\* An end_lease and a start_lease event of the tick at one instant, the
\* end_lease's own lease having no start_lease event at that instant.
EndAndStartAt(e, s) ==
    /\ e \in Fetched /\ s \in Fetched
    /\ e.event_type = "end_lease"
    /\ s.event_type = "start_lease"
    /\ e.time = s.time
    /\ ~\E o \in Fetched : /\ o.event_type = "start_lease"
                           /\ o.lease_id = e.lease_id
                           /\ o.time = e.time

\* C2: of the events due in one tick, every end_lease event at an instant T
\* (but one whose own lease has a start_lease at T) is in a strictly earlier
\* batch than every start_lease event at T, and has completed when that
\* start_lease handler begins.
C2_EndBeforeStartAtSameInstant ==
    \A e \in Fetched, s \in Fetched :
        EndAndStartAt(e, s) =>
            /\ BatchOf(engBatches, e) < BatchOf(engBatches, s)
            /\ s.id \in hStarted => e.id \in hFinished

\* ------------------------------------------------------------------ C3
\* C3: the before_end_lease handler of a lease begins only after the lease's
\* start_lease handler has finished, and has finished when the lease's
\* end_lease handler begins.
C3_BeforeEndBetweenStartAndEnd ==
    \A b \in EventIds :
        (events[b].event_type = "before_end_lease" /\ b \in hStarted) =>
            LET l == events[b].lease_id
            IN  /\ event_get_first(l, "start_lease") \in hFinished
                /\ event_get_first(l, "end_lease") \in hStarted => b \in hFinished

\* ------------------------------------------------------------------ C5
HandlerRunning(e) == workers[e].pc \in {"body", "exit"}

\* C5: no two event handlers of one lease execute at the same time.
C5_NoTwoHandlersOfALease ==
    \A e, f \in EventIds :
        (e # f /\ HandlerRunning(e) /\ HandlerRunning(f)) =>
            workers[e].event.lease_id # workers[f].event.lease_id

\* ------------------------------------------------------------------ C4
\* The status-guarded operations in progress on lease l: the start_lease and
\* end_lease handlers past their entry, the update_lease and delete_lease
\* calls past theirs.
HandlersInProgress(l) ==
    {e \in EventIds : /\ HandlerRunning(e)
                      /\ workers[e].event.lease_id = l
                      /\ workers[e].event.event_type \in GuardedOps}

CallsInProgress(l) ==
    {p \in ApiProcs : /\ api[p].pc \notin {"idle", "returned"}
                      /\ api[p].lease_id = l
                      /\ api[p].op \in GuardedOps}

C4_AtMostOneInProgress ==
    \A l \in LeaseIds :
        Cardinality(HandlersInProgress(l)) + Cardinality(CallsInProgress(l)) <= 1

\* A step in which a guarded operation is attempted on a lease that is in a
\* non-stable status: the attempt ends with InvalidStatus and the lease row
\* is what it was.
C4_RejectedWhenNotStable ==
    /\ \A p \in ApiProcs :
          ( /\ api[p].pc = "idle" /\ api'[p].pc # "idle"
            /\ api'[p].op \in GuardedOps
            /\ leases[api'[p].lease_id].status \in TRANSITIONAL )
          => /\ api'[p].pc = "returned"
             /\ api'[p].raised = "InvalidStatus"
             /\ leases' = leases
    /\ \A e \in EventIds :
          ( /\ workers[e].pc = "spawned" /\ workers'[e].pc # "spawned"
            /\ workers[e].event.event_type \in GuardedOps
            /\ leases[workers[e].event.lease_id].status \in TRANSITIONAL )
          => /\ workers'[e].pc = "finished"
             /\ workers'[e].raised = "InvalidStatus"
             /\ leases' = leases

\* C4: at most one status-guarded operation (update_lease, delete_lease,
\* start_lease, end_lease) is in progress on a lease at any moment, and an
\* attempt made while the lease is in a non-stable status fails with
\* InvalidStatus and leaves the lease unchanged.
C4_OneGuardedOperationAtATime ==
    []C4_AtMostOneInProgress /\ [][C4_RejectedWhenNotStable]_vars

\* An API call was turned away with InvalidStatus while another guarded
\* operation holds the lease, and a handler was while an API call holds it.
C4_Witness ==
    /\ \E p \in ApiProcs :
          /\ api[p].pc = "returned"
          /\ api[p].raised = "InvalidStatus"
          /\ leases[api[p].lease_id].status \in TRANSITIONAL
          /\ Cardinality(HandlersInProgress(api[p].lease_id))
               + Cardinality(CallsInProgress(api[p].lease_id)) = 1
    /\ \E e \in EventIds :
          /\ workers[e].raised = "InvalidStatus"
          /\ CallsInProgress(workers[e].event.lease_id) # {}

\* ------------------------------------------------------------------ C6
\* No host is allocated to two reservations whose lease periods overlap.
NoDoubleBooking ==
    \A a \in allocations, b \in allocations :
        (a # b /\ a[2] = b[2]) =>
            ~Overlap(PeriodOf(a[1]).start_date, PeriodOf(a[1]).end_date,
                     PeriodOf(b[1]).start_date, PeriodOf(b[1]).end_date)

\* A create_lease that failed left nothing: a lease row in CREATING belongs
\* to a create_lease call that is still at work, and every reservation,
\* event and allocation belongs to a lease that has its row.
NothingLeftBehind ==
    /\ \A l \in LeaseIds :
          leases[l].status = "CREATING" =>
              \E p \in ApiProcs : /\ api[p].op = "create_lease"
                                  /\ api[p].pc \in {"reserve", "allocate", "events"}
                                  /\ api[p].lease_id = l
    /\ \A r \in ResIds :
          reservations[r].status # "NONE" => LeaseExists(reservations[r].lease_id)
    /\ \A e \in EventIds :
          events[e].status # "NONE" => LeaseExists(events[e].lease_id)
    /\ \A a \in allocations : reservations[a[1]].status # "NONE"

\* C6: whatever create_lease and update_lease calls were made, and however
\* they interleaved, no compute host is allocated to two reservations whose
\* lease periods overlap, and a create_lease that failed for want of a host
\* persisted no lease, reservation, event or allocation.
C6_NoHostDoubleBooked == NoDoubleBooking /\ NothingLeftBehind

\* ------------------------------------------------------------------ C7
EventsOfType(l, t) == {e \in EventsOfLease(l) : events[e].event_type = t}

\* A lease create_lease has finished with.
Persisted(l) == LeaseExists(l) /\ leases[l].status # "CREATING"

\* C7: every persisted lease has exactly one start_lease event, exactly one
\* end_lease event and at most one before_end_lease event, whatever its
\* create_lease call carried in 'events'.
C7_OneEventOfEachType ==
    \A l \in LeaseIds :
        Persisted(l) =>
            /\ Cardinality(EventsOfType(l, "start_lease")) = 1
            /\ Cardinality(EventsOfType(l, "end_lease")) = 1
            /\ Cardinality(EventsOfType(l, "before_end_lease")) <= 1

\* ------------------------------------------------------------------ C8
\* C8: a lease in a stable status (one with a single start_lease and a single
\* end_lease event) has its start_lease event at lease.start_date and its
\* end_lease event at lease.end_date, also after an update_lease that failed
\* part-way.
C8_EventTimesAreLeaseDates ==
    \A l \in LeaseIds :
        ( /\ is_stable(l)
          /\ Cardinality(EventsOfType(l, "start_lease")) = 1
          /\ Cardinality(EventsOfType(l, "end_lease")) = 1 ) =>
            /\ events[event_get_first(l, "start_lease")].time = leases[l].start_date
            /\ events[event_get_first(l, "end_lease")].time = leases[l].end_date

\* ------------------------------------------------------------------ C9
\* C9: the before_end_lease event of a persisted lease in a stable status
\* lies at or after the lease's start_date and before its end_date.
C9_BeforeEndWithinLease ==
    \A l \in LeaseIds :
        is_stable(l) =>
            \A b \in EventsOfType(l, "before_end_lease") :
                /\ leases[l].start_date <= events[b].time
                /\ events[b].time < leases[l].end_date

\* ----------------------------------------------------------------- C10
\* update_lease has accepted new dates: the call passes from its checks to
\* its writes.
AcceptsDates(p) ==
    /\ api[p].op = "update_lease" /\ api[p].pc = "body"
    /\ api'[p].pc = "reservations"

C10_AcceptedDatesAreValid ==
    \A p \in ApiProcs :
        AcceptsDates(p) => /\ api'[p].end_date > now
                           /\ api'[p].end_date > api'[p].start_date

C10_EndAfterStart ==
    \A l \in LeaseIds : LeaseExists(l) => leases[l].end_date > leases[l].start_date

\* C10: update_lease accepts new dates only when end_date > now and
\* end_date > start_date, and every lease in the table has end_date >
\* start_date.
C10_UpdateKeepsEndAfterStart ==
    [][C10_AcceptedDatesAreValid]_vars /\ []C10_EndAfterStart

\* ----------------------------------------------------------------- C11
\* The dates of request v, 'now' resolved to the current minute, are ones
\* create_lease must refuse.
C11_BadDates(v) ==
    \/ parse_date(v.start_date) < now
    \/ parse_date(v.end_date) <= parse_date(v.start_date)

\* A create_lease call with such dates ends at once with InvalidInput, and
\* no table is written.
C11_RefusedUntouched ==
    \A p \in ApiProcs, v \in CreateValues :
        (create_lease(p, v) /\ C11_BadDates(v)) =>
            /\ api'[p] = Returned("create_lease", 0, "InvalidInput")
            /\ UNCHANGED dbVars

\* C11: create_lease fails with InvalidInput when start_date is before the
\* current minute or end_date <= start_date ('now' being the current
\* minute); no lease, reservation or event row is written then and no
\* plugin is asked to reserve anything.
C11_InvalidDatesRejected ==
    [][C11_RefusedUntouched]_vars
        /\ [](\A p \in ApiProcs :
                (api[p].op = "create_lease" /\ api[p].pc # "returned") =>
                    api[p].end_date > api[p].start_date)

\* A create_lease call was refused with InvalidInput while the tables hold a
\* lease.
C11_Witness ==
    /\ \E p \in ApiProcs : api[p] = Returned("create_lease", 0, "InvalidInput")
    /\ \E l \in LeaseIds : LeaseExists(l)

\* ----------------------------------------------------------------- C12
\* The create_lease calls that have written their lease row and not returned.
CreatingCalls(l) ==
    {p \in ApiProcs : /\ api[p].op = "create_lease"
                      /\ api[p].pc \in {"reserve", "allocate", "events"}
                      /\ api[p].lease_id = l}

\* C12: when create_lease has returned an error raised after its lease row
\* was written (by reserve_resource, a reservation write or an event write),
\* no lease, reservation or event row of that lease remains and no lease is
\* left in CREATING: a lease in CREATING is one a create_lease call is still
\* working on, and a call that returned an error has no lease row.
C12_FailedCreateRolledBack ==
    /\ \A l \in LeaseIds : leases[l].status = "CREATING" => CreatingCalls(l) # {}
    /\ \A p \in ApiProcs :
          ( /\ api[p].op = "create_lease" /\ api[p].pc = "returned"
            /\ api[p].raised # "NONE" /\ api[p].lease_id # 0 ) =>
              /\ ~LeaseExists(api[p].lease_id)
              /\ ReservationsOfLease(api[p].lease_id) = {}
              /\ EventsOfLease(api[p].lease_id) = {}

\* ----------------------------------------------------------------- C13
\* What update_lease raises when it rejects a request: for invalid dates
\* (NotAuthorized is what the check of before_end_date raises), for
\* malformed or missing parameters, for insufficient resources.
C13_Rejections ==
    {"InvalidInput", "NotAuthorized", "InvalidDate", "InvalidPeriod",
     "InvalidRange", "MissingParameter", "MalformedParameter",
     "MalformedRequirements", "CantUpdateParameter",
     "NotEnoughResourcesAvailable"}

\* The step in which a rejected update_lease call leaves the status guard.
C13_RejectedKeepsStatus ==
    \A p \in ApiProcs :
        ( /\ api[p].op = "update_lease" /\ api[p].pc = "exit"
          /\ api[p].raised \in C13_Rejections
          /\ api'[p].pc = "returned" ) =>
            leases'[api[p].lease_id].status = api[p].original_status

\* C13: when update_lease is rejected for invalid dates (a before_end_date
\* that is not strictly between start_date and end_date included), for
\* malformed or missing parameters or for insufficient resources, the lease
\* has after the call the status it had before: not UPDATING, not ERROR.
C13_RejectedUpdateKeepsStatus == [][C13_RejectedKeepsStatus]_vars

\* ----------------------------------------------------------------- C14
C14_ValidationErrors ==
    {"InvalidInput", "MissingParameter", "MalformedParameter",
     "CantUpdateParameter", "NotEnoughResourcesAvailable", "InvalidDate",
     "InvalidPeriod", "InvalidRange"}

\* C14: when update_lease raises a validation error, the lease's name and
\* dates, the
\* times of its events and the allocations of every one of its reservations
\* are what the call found, also when the error arises on a later
\* reservation of a lease with several.
C14_RejectedUpdateChangesNothing ==
    \A p \in ApiProcs :
        (/\ api[p].op = "update_lease"
         /\ api[p].pc = "exit"
         /\ api[p].raised \in C14_ValidationErrors)
        => SnapshotOf(api[p].lease_id) = api[p].before

\* ----------------------------------------------------------------- C15
\* The call p has nothing to change: its values are empty, or they are a
\* name alone and the lease bore that name when the call began.
C15_NothingToChange(p) ==
    /\ api[p].op = "update_lease"
    /\ \/ api[p].values = NoValues
       \/ /\ api[p].values.name # "NONE"
          /\ api[p].values = [NoValues EXCEPT !.name = api[p].values.name]
          /\ api[p].before.name = api[p].values.name

\* A step of such a call: its body raises nothing and writes nothing, its
\* exit puts the lease back in the status the call found.
C15_NothingChanged ==
    \A p \in ApiProcs :
        (/\ C15_NothingToChange(p)
         /\ api[p].pc \in {"body", "exit"}
         /\ api'[p] # api[p])
        => /\ UNCHANGED <<reservations, events, allocations, hosts>>
           /\ api[p].raised = "NONE" /\ api'[p].raised = "NONE"
           /\ api[p].pc = "body" => api'[p].pc = "exit" /\ leases' = leases
           /\ api[p].pc = "exit" =>
                 /\ api'[p].pc = "returned"
                 /\ leases' = [leases EXCEPT ![api[p].lease_id].status =
                                                 api[p].original_status]

C16_Terminated(l) ==
    LET end_event == event_get_first(l, "end_lease")
    IN  end_event # 0 /\ events[end_event].status = "DONE"

\* The call p asks for a start date other than the one of its lease, which
\* started before now.
C16_MovesStartOfStarted(p) ==
    LET lease == leases[api[p].lease_id]
    IN  /\ lease.start_date < now
        /\ api[p].values.start_date # ABSENT
        /\ parse_date(api[p].values.start_date) # lease.start_date

\* The body of an update_lease call that moves the start of a started lease,
\* or that asks a terminated lease for more than a new name, raises
\* InvalidInput and writes nothing.
C16_Refused ==
    \A p \in ApiProcs :
        (/\ api[p].op = "update_lease"
         /\ api[p].pc = "body"
         /\ api'[p] # api[p]
         /\ api[p].values # NoValues
         /\ ~is_name_only(api[p].values)
         /\ \/ C16_MovesStartOfStarted(p)
            \/ C16_Terminated(api[p].lease_id))
        => /\ api'[p].pc = "exit"
           /\ api'[p].raised = "InvalidInput"
           /\ UNCHANGED <<leases, events>>

\* C16: update_lease rejects with InvalidInput any change of start_date on
\* a lease whose start_date is before now, and every update other than a
\* name-only one on a lease whose end_lease event has been executed; the
\* dates and the events stay as they were.
C16_StartedAndTerminatedLeases == [][C16_Refused]_vars

\* ----------------------------------------------------------------- C17
\* The handler of event e ends in this step, having raised exc.
C17_Raises(e, exc) ==
    /\ workers[e].pc # "finished"
    /\ workers'[e].pc = "finished"
    /\ workers'[e].raised = exc

\* Some second of the minute `now` lies before time + max_retries * 10 s.
C17_MayBeInside(max_retries, time) == 60 * (now - time) < 10 * max_retries

\* Some second of the minute `now` lies at or after it.
C17_MayBePast(max_retries, time) == 60 * (now - time) + 59 >= 10 * max_retries

C17_Outcome ==
    \A e \in EventIds :
        /\ C17_Raises(e, "InvalidStatus") =>
              \/ /\ events'[e].status = "UNDONE"
                 /\ C17_MayBeInside(event_max_retries, workers[e].event.time)
              \/ /\ events'[e].status = "ERROR"
                 /\ C17_MayBePast(event_max_retries, workers[e].event.time)
        /\ C17_Raises(e, "Exception") => events'[e].status \in {"ERROR", "NONE"}
        /\ (/\ engPc = "idle" /\ engPc' = "dispatch"
            /\ \E b \in DOMAIN engBatches' :
                  \E i \in DOMAIN engBatches'[b] : engBatches'[b][i].id = e)
              => events[e].status = "UNDONE"

\* With event_max_retries = 0 an event that is due is never put back.
C17_NoRetryAtZero ==
    \A time \in Dates : time <= now => RetryWindow(0, time) = {"ERROR"}

\* C17: a handler that raises InvalidStatus leaves its event UNDONE when
\* the current time is before event.time + event_max_retries * 10 s and
\* ERROR otherwise; any other exception leaves it ERROR; the engine takes
\* up only UNDONE events, so an event is retried only inside the window,
\* and never when event_max_retries is 0.
C17_RetryWindow == [][C17_Outcome]_vars /\ []C17_NoRetryAtZero

\* A handler raised InvalidStatus inside the window and its event is UNDONE
\* again, while an event whose time is past the window is in ERROR.
C17_Witness ==
    \E e, f \in EventIds :
        /\ workers[e].pc = "finished" /\ workers[e].raised = "InvalidStatus"
        /\ events[e].status = "UNDONE"
        /\ events[f].status = "ERROR"
        /\ ~C17_MayBeInside(event_max_retries, events[f].time)

\* ----------------------------------------------------------------- C18
\* In this step the start_lease handler of event e ran its plugin callbacks
\* and one of them raised InvalidStatus.
C18_PluginRaisedInvalidStatus(e) ==
    /\ workers[e].pc = "body"
    /\ workers'[e].pc = "exit"
    /\ workers[e].event.event_type = "start_lease"
    /\ workers'[e].caught = "InvalidStatus"

C18_Outcome ==
    \A e \in EventIds :
        /\ C18_PluginRaisedInvalidStatus(e) =>
              /\ workers'[e].retry = "UNDONE" => events'[e].status = "UNDONE"
              /\ workers'[e].retry = "ERROR" => events'[e].status = "ERROR"
        /\ (/\ workers[e].pc = "exit" /\ workers'[e].pc = "finished"
            /\ workers[e].event.event_type = "start_lease"
            /\ events[e].status = "ERROR")
              => leases'[workers[e].event.lease_id].status = "ERROR"

\* C18: when a plugin raises InvalidStatus while start_lease runs inside
\* the retry window, the event goes back to UNDONE (and so is taken up again
\* on a later tick); when it does past the window, the event ends in ERROR
\* and the lease in ERROR.
C18_PluginInvalidStatusRetried == [][C18_Outcome]_vars

\* ----------------------------------------------------------------- C19
\* In this step the start_lease handler of event e runs basic_action.
C19_StartRuns(e) ==
    /\ workers[e].pc = "body"
    /\ workers'[e].pc = "exit"
    /\ workers[e].event.event_type = "start_lease"

\* The reservations of lease l that the step leaves in ERROR though the
\* transition from PENDING to ACTIVE was open to them: their on_start raised.
C19_Raised(l) ==
    {r \in ReservationsOfLease(l) : /\ reservations[r].status = "PENDING"
                                    /\ reservations'[r].status = "ERROR"}

C19_EachReservation ==
    \A e \in EventIds :
        C19_StartRuns(e) =>
            LET l == workers[e].event.lease_id
                succeeded == {r \in ReservationsOfLease(l) :
                                 reservations'[r].status = "ACTIVE"}
            IN  /\ \A r \in ReservationsOfLease(l) :
                      /\ reservations[r].status # "PENDING"
                            => reservations'[r].status = "ERROR"
                      /\ reservations[r].status = "PENDING"
                            => reservations'[r].status \in {"ACTIVE", "ERROR"}
                      /\ r \in C19_Raised(l) <=> (/\ reservations[r].status = "PENDING"
                                                   /\ r \notin succeeded)
                /\ (workers'[e].caught = "NONE") <=> (C19_Raised(l) = {})
                /\ events'[e].status =
                      IF succeeded = ReservationsOfLease(l) THEN "DONE" ELSE "ERROR"
                /\ \A r \in ResIds \ ReservationsOfLease(l) :
                      reservations'[r] = reservations[r]

\* C19: in start_lease a reservation that may not go from its status to
\* ACTIVE, or whose on_start raises, is set to ERROR and the event to
\* ERROR, while every other reservation of the lease is still processed
\* and set to ACTIVE; the event is DONE exactly when every reservation
\* succeeded.
C19_StartLeaseEachReservation == [][C19_EachReservation]_vars

\* start_lease ran on a lease of two reservations: one could not leave its
\* status or raised and is in ERROR, the other is ACTIVE, the event is ERROR.
C19_Witness ==
    \E e \in EventIds, r, q \in ResIds :
        /\ workers[e].pc = "exit"
        /\ workers[e].event.event_type = "start_lease"
        /\ events[e].status = "ERROR"
        /\ reservations[r].lease_id = workers[e].event.lease_id
        /\ reservations[q].lease_id = workers[e].event.lease_id
        /\ reservations[r].status = "ERROR"
        /\ reservations[q].status = "ACTIVE"
        /\ workers[e].caught = "NONE"

\* ----------------------------------------------------------------- C20
\* The handler of the end_lease event e goes from `from` to `to` in this step.
C20_EndLeaseStep(e, from, to) ==
    /\ workers[e].event.event_type = "end_lease"
    /\ workers[e].pc = from
    /\ workers'[e].pc = to

C20_Lifecycle ==
    \A e \in EventIds :
        LET l == workers[e].event.lease_id
        IN  /\ C20_EndLeaseStep(e, "spawned", "body") =>
                  /\ leases[l].status = "ACTIVE"
                  /\ leases'[l].status = "TERMINATING"
            /\ C20_EndLeaseStep(e, "body", "exit") =>
                  /\ leases'[l].status = "TERMINATING"
                  /\ (/\ Called(l, "DELETED") = ReservationsOfLease(l)
                      /\ workers'[e].caught = "NONE")
                        => /\ events'[e].status = "DONE"
                           /\ \A r \in ReservationsOfLease(l) :
                                 reservations[r].status = "ACTIVE"
                                    => reservations'[r].status = "DELETED"
            /\ C20_EndLeaseStep(e, "exit", "finished") =>
                  /\ leases[l].status = "TERMINATING"
                  /\ leases'[l].status \in {"TERMINATED", "ERROR"}
                  /\ events[e].status = "DONE" => leases'[l].status = "TERMINATED"

C21_Started(l) ==
    /\ leases[l].status = "ACTIVE"
    /\ \A r \in ReservationsOfLease(l) : reservations[r].status = "ACTIVE"
    /\ \E e \in EventsOfLease(l) : /\ events[e].event_type = "start_lease"
                                    /\ events[e].status = "DONE"

\* C21: with the engine ticking fairly, a PENDING lease whose on_start
\* callbacks succeed and which no API call updates or deletes eventually,
\* once its start date has come, is ACTIVE with every reservation ACTIVE and
\* its start_lease event DONE.
C21_PendingLeaseStarts ==
    \A l \in LeaseIds : (leases[l].status = "PENDING") ~> C21_Started(l)

\* ----------------------------------------------------------------- C22
\* The delete_lease call p goes from `from` to `to` in this step.
C22_DeleteStep(p, from, to) ==
    /\ api[p].op = "delete_lease"
    /\ api[p].pc = from
    /\ api'[p].pc = to

\* After the step nothing of lease l is in the tables.
C22_Removed(l) ==
    /\ leases'[l] = NoLease
    /\ \A r \in ResIds : reservations'[r].lease_id # l
    /\ \A e \in EventIds : events'[e].lease_id # l

C22_RemovedOrError ==
    \A p \in ApiProcs :
        LET l == api[p].lease_id
        IN  /\ C22_DeleteStep(p, "teardown", "exit") =>
                  IF api'[p].raised = "NONE"
                  THEN C22_Removed(l)
                  ELSE UNCHANGED <<leases, reservations, events>>
            /\ C22_DeleteStep(p, "exit", "returned") =>
                  /\ leases'[l].status # "DELETING"
                  /\ IF api[p].raised = "NONE"
                     THEN C22_Removed(l)
                     ELSE /\ api'[p].raised = api[p].raised
                          /\ leases'[l].status = "ERROR"

\* C22: delete_lease on a lease in a stable status either removes the
\* lease row with its reservations and events, when every on_end succeeds,
\* or raises and leaves the lease in ERROR; it never returns with the lease
\* still in DELETING.
C22_DeleteRemovesOrErrors == [][C22_RemovedOrError]_vars

\* One delete_lease failed on an on_end and left the lease in ERROR; a
\* second one then removed the lease and everything of it.
C22_Witness ==
    \E p, q \in ApiProcs :
        /\ api[p].op = "delete_lease" /\ api[p].pc = "returned"
        /\ api[p].raised = "EventError"
        /\ api[q].op = "delete_lease" /\ api[q].pc = "returned"
        /\ api[q].raised = "NONE"
        /\ api[q].lease_id = api[p].lease_id
        /\ leases[api[q].lease_id] = NoLease
        /\ \A r \in ResIds : reservations[r].lease_id # api[q].lease_id
        /\ \A e \in EventIds : events[e].lease_id # api[q].lease_id

\* ----------------------------------------------------------------- C23
\* A delete_lease call that entered DELETING comes back from the guard with
\* the lease.delete notification of its lease sent.
C23_Notified ==
    \A p \in ApiProcs :
        (/\ api[p].op = "delete_lease"
         /\ api[p].pc = "exit"
         /\ api'[p].pc = "returned")
        => <<"lease.delete", api[p].lease_id>> \in notifications'

\* C23: every execution of delete_lease that enters the DELETING
\* transition emits a lease.delete notification, whether the teardown was
\* clean (lease destroyed) or unclean (EventError raised).
C23_DeleteAlwaysNotifies == [][C23_Notified]_vars

\* ----------------------------------------------------------------- C24
C24_Network(res) == res.resource_type = "network"

C24_Witness ==
    /\ fnCall.pc = "done"
    /\ fnCall.op = "delete_lease"
    /\ Len(fnCall.args) = 3
    /\ C24_Network(fnCall.args[1])
    /\ fnCall.args[2].resource_type = "virtual:instance"
    /\ fnCall.args[3].resource_type = "physical:host"
    /\ Len(fnCall.invoked) = 3
    /\ fnCall.invoked[1].id = 2
    /\ fnCall.invoked[2].id = 3
    /\ fnCall.invoked[3].id = 1

\* C24: in start_lease, end_lease, before_end_lease and delete_lease the
\* plugin callbacks are invoked in execution order: no callback of a
\* 'network' reservation comes before the callback of a reservation of
\* another type, reservations of equal weight keep their insertion order,
\* and once the loop is over every reservation due a callback had it.
C24_CallbacksInExecutionOrder ==
    fnCall.op \in OrderedOps =>
        /\ \A i, j \in DOMAIN fnCall.invoked :
              i < j =>
                 /\ ~(C24_Network(fnCall.invoked[i]) /\ ~C24_Network(fnCall.invoked[j]))
                 /\ (C24_Network(fnCall.invoked[i]) = C24_Network(fnCall.invoked[j]))
                       => fnCall.invoked[i].id < fnCall.invoked[j].id
        /\ fnCall.pc = "done" =>
              Range(fnCall.invoked) =
                 {fnCall.args[i] : i \in {k \in DOMAIN fnCall.args :
                                             CallbackInvoked(fnCall.op, fnCall.args[k])}}

\* ----------------------------------------------------------------- C25
\* The entry points whose plugin get_plugins can construct.
C25_Loadable ==
    {i \in DOMAIN fnCall.args.entry_points :
        /\ fnCall.args.entry_points[i].name \in fnCall.args.config_plugins
        /\ fnCall.args.entry_points[i].loads}

C25_Undiscovered ==
    \E n \in fnCall.args.config_plugins :
        \A i \in DOMAIN fnCall.args.entry_points : fnCall.args.entry_points[i].name # n

C25_Duplicate ==
    \E i, j \in C25_Loadable :
        /\ i < j
        /\ fnCall.args.entry_points[i].resource_type =
              fnCall.args.entry_points[j].resource_type

C25_Witness ==
    /\ fnCall.op = "get_plugins"
    /\ fnCall.pc = "raised"
    /\ fnCall.raised = "PluginConfigurationError"
    /\ Len(fnCall.args.entry_points) = 3
    /\ ~fnCall.args.entry_points[1].loads
    /\ Cardinality(fnCall.result) = 1

\* C25: the registry get_plugins builds never holds two plugins of one
\* resource_type; when a plugin is loaded whose resource_type is registered
\* already the call fails with PluginConfigurationError, and a configured
\* name with no discovered implementation makes the call (the start-up) fail.
C25_OnePluginPerResourceType ==
    fnCall.op = "get_plugins" =>
        /\ \A p, q \in fnCall.result : p[1] = q[1] => p = q
        /\ fnCall.pc \in {"done", "raised"} =>
              /\ C25_Undiscovered => fnCall.pc = "raised" /\ fnCall.raised = "BlazarException"
              /\ (~C25_Undiscovered /\ C25_Duplicate) =>
                    fnCall.pc = "raised" /\ fnCall.raised = "PluginConfigurationError"
              /\ fnCall.pc = "done" =>
                    fnCall.result =
                       {<<fnCall.args.entry_points[i].resource_type,
                          fnCall.args.entry_points[i].name>> : i \in C25_Loadable}

\* ----------------------------------------------------------------- C26
\* The engine hands event e to a handler in this step.
C26_Dispatched(e) == workers[e].pc # "spawned" /\ workers'[e].pc = "spawned"

\* The engine looks at an event of the batch and skips it.
C26_Skipped ==
    /\ engPc = "dispatch"
    /\ <<engI, engPc>> # <<engI', engPc'>>
    /\ workers' = workers

\* C26: the engine invokes a handler only for an event whose persisted
\* status is UNDONE and whose persisted time is not after now, of a lease in
\* a stable status, all at the moment of the dispatch, whatever an API call
\* changed since the events were fetched; an event it skips stays as it is.
C26_DispatchOnPersistedState ==
    [][/\ \A e \in EventIds :
             C26_Dispatched(e) =>
                /\ events[e].status = "UNDONE"
                /\ events[e].time <= now
                /\ is_stable(events[e].lease_id)
       /\ C26_Skipped => events' = events]_vars

\* ----------------------------------------------------------------- C27
\* The handler of event e fails in this step: the wrapper refuses it, the
\* lease is gone, or basic_action caught an exception of a plugin.
C27_Fails(e) ==
    /\ workers[e].pc \in {"spawned", "body"}
    /\ workers'[e] # workers[e]
    /\ \/ workers'[e].raised # "NONE"
       \/ workers[e].pc = "body" /\ events'[e].status = "ERROR"

C27_EngineAt == <<engPc, engBatches, engB, engI>>

\* A thread that was spawned can take its next step, and the engine its own.
C27_NothingStopped ==
    /\ \A f \in EventIds :
          workers[f].pc \in {"spawned", "body", "exit"} =>
             ENABLED (HandlerEnter(f) \/ HandlerBody(f) \/ HandlerExit(f))
    /\ engPc = "dispatch" => ENABLED Dispatch
    /\ (/\ engPc = "wait"
        /\ \A f \in EventIds : workers[f].pc \in {"none", "finished"})
          => ENABLED WaitBatch

C27_Witness ==
    \E e, f \in EventIds :
        /\ workers[e].pc = "finished"
        /\ workers[f].pc = "finished"
        /\ e \in hStarted
        /\ events[e].status = "ERROR"
        /\ events[f].status = "DONE"
        /\ \E g \in EventIds : events[g].status = "UNDONE"

\* C27: an exception raised while an event is handled is recorded on that
\* event, as ERROR or as UNDONE for a retry, and on no other event; it
\* leaves the other threads of the batch and the engine's place in the tick
\* as they are, and every other thread, the rest of the batch, the later
\* batches and the later ticks go on.
C27_FailureStaysOnItsEvent ==
    /\ []C27_NothingStopped
    /\ [][\A e \in EventIds :
             C27_Fails(e) =>
                /\ events'[e].status \in {"ERROR", "UNDONE"}
                /\ \A f \in EventIds \ {e} :
                      events'[f] = events[f] /\ workers'[f] = workers[f]
                /\ C27_EngineAt' = C27_EngineAt]_vars

\* ----------------------------------------------------------------- C28
\* Something runs for lease l: the handler of one of its events, or an API
\* call on it.
C28_Running(l) ==
    \/ \E e \in EventIds :
          /\ workers[e].pc \in {"spawned", "body", "exit"}
          /\ workers[e].event.lease_id = l
    \/ \E p \in ApiProcs :
          /\ api[p].pc \notin {"idle", "returned"}
          /\ api[p].lease_id = l

\* C28: an event set IN_PROGRESS, by the engine at dispatch or by
\* delete_lease on a started lease, is DONE, ERROR or UNDONE again when the
\* handler or the delete has finished, however it ended: no event is
\* IN_PROGRESS while nothing runs for its lease.
C28_NoEventLeftInProgress ==
    \A e \in EventIds :
        events[e].status = "IN_PROGRESS" => C28_Running(events[e].lease_id)

\* ----------------------------------------------------------------- C29
\* Event x is in batch b of the returned list.
C29_In(b, x) == \E i \in DOMAIN selBatches[b] : selBatches[b][i] = x

\* C29: every batch select_for_execution returns holds events of one event
\* type only, and time order is kept: an event with an earlier time is in an
\* earlier batch than every event with a later time, never in the same batch
\* or a later one.
C29_OneTypePerBatchInTimeOrder ==
    (selPc = "done" /\ selBatches # "ValueError") =>
        \A b \in DOMAIN selBatches :
            \A x \in Range(selBatches[b]) :
                /\ \A y \in Range(selBatches[b]) : y.event_type = x.event_type
                /\ \A c \in DOMAIN selBatches :
                      \A y \in Range(selBatches[c]) : x.time < y.time => b < c

\* ----------------------------------------------------------------- C30
\* The engine publishes the notification of event e in this step.
C30_Published(e) ==
    /\ workers[e].pc \in {"body", "exit"}
    /\ workers'[e].pc = "finished"
    /\ notifications' =
          Notified(EventNotification(workers[e].event.event_type),
                   workers[e].event.lease_id)
    /\ workers'[e].raised = "NONE"
    /\ LeaseExists(workers[e].event.lease_id)

\* C30: the engine publishes event.<event_type> for a dispatched event only
\* when its handler succeeded and the event is DONE; an event that ends in
\* ERROR, or goes back to UNDONE, has no notification published.
C30_NotifiesOnlyDoneEvents ==
    [][\A e \in EventIds : C30_Published(e) => events'[e].status = "DONE"]_vars

\* ----------------------------------------------------------------- C31
\* The before_end_lease handler of event e runs basic_action in this step.
C31_BeforeEndRuns(e) ==
    /\ workers[e].pc = "body"
    /\ workers[e].event.event_type = "before_end_lease"
    /\ workers'[e].pc = "finished"

\* C31: before_end_lease makes no status transition: when it has run,
\* whether the plugin's before_end returned or raised, the lease and every
\* reservation of the lease have the status they had; only the status of
\* the before_end_lease event changes.
C31_BeforeEndKeepsStatuses ==
    [][\A e \in EventIds :
          C31_BeforeEndRuns(e) =>
             /\ leases' = leases
             /\ reservations' = reservations
             /\ \A f \in EventIds \ {e} : events'[f] = events[f]]_vars

\* ----------------------------------------------------------------- C32
\* Call p writes the events of its lease in this step, with new dates and
\* no before_end_date given, and the lease has a before_end_lease event.
C32_MovesBeforeEnd(p) ==
    /\ api[p].op = "update_lease"
    /\ api[p].pc = "events"
    /\ api'[p].pc = "exit"
    /\ api'[p].raised = "NONE"
    /\ api[p].before_end_date = ABSENT
    /\ event_get_first(api[p].lease_id, "before_end_lease") # 0
    /\ <<api[p].start_date, api[p].end_date>> #
          <<leases[api[p].lease_id].start_date, leases[api[p].lease_id].end_date>>

C32_Expected(p) ==
    LET l == api[p].lease_id
        b == event_get_first(l, "before_end_lease")
        shifted == api[p].end_date - (leases[l].end_date - events[b].time)
    IN  IF shifted < api[p].start_date THEN api[p].start_date ELSE shifted

\* An update moved the start of the lease past the shifted date, and the
\* event stands at the new start.
C32_Witness ==
    \E p \in ApiProcs :
        LET l == api[p].lease_id
            b == event_get_first(l, "before_end_lease")
            old == api[p].before
        IN  /\ api[p].op = "update_lease"
            /\ api[p].pc = "exit"
            /\ api[p].raised = "NONE"
            /\ api[p].before_end_date = ABSENT
            /\ b # 0
            /\ \E t \in Dates :
                  /\ <<b, t>> \in old.times
                  /\ api[p].end_date - (old.end_date - t) < api[p].start_date
                  /\ t < api[p].start_date
            /\ events[b].time = api[p].start_date

\* C32: when update_lease changes the dates of the lease and no
\* before_end_date is given, the before_end_lease event gets the time
\* new end_date - (old end_date - old time of the event), or the new
\* start_date when that is earlier than the new start_date.
C32_BeforeEndKeepsItsDelta ==
    [][\A p \in ApiProcs :
          C32_MovesBeforeEnd(p) =>
             events'[event_get_first(api[p].lease_id, "before_end_lease")].time
                = C32_Expected(p)]_vars

\* ----------------------------------------------------------------- C33
\* Call p writes the events in this step and moves the before_end_lease
\* event of its lease, which was DONE, to a time later than now.
C33_MovesDoneEventAhead(p) ==
    LET b == event_get_first(api[p].lease_id, "before_end_lease")
    IN  /\ api[p].op = "update_lease"
        /\ api[p].pc = "events"
        /\ api'[p].pc = "exit"
        /\ b # 0
        /\ events[b].status = "DONE"
        /\ events'[b].time > now

\* C33: when update_lease moves a before_end_lease event that was DONE to a
\* time later than now, the event is UNDONE again and the notification
\* event.before_end_lease.stop is sent together with lease.update.
C33_StopNotification ==
    [][\A p \in ApiProcs :
          C33_MovesDoneEventAhead(p) =>
             LET l == api[p].lease_id
                 b == event_get_first(l, "before_end_lease")
             IN  /\ events'[b].status = "UNDONE"
                 /\ <<"lease.event.before_end_lease.stop", l>> \in notifications'
                 /\ <<"lease.update", l>> \in notifications']_vars

\* ----------------------------------------------------------------- C40
\* Call p writes the events in this step, and the before_end_lease event of
\* its lease, which was DONE, gets a time that is not later than now.
C40_KeepsDoneEventDue(p) ==
    LET b == event_get_first(api[p].lease_id, "before_end_lease")
    IN  /\ api[p].op = "update_lease"
        /\ api[p].pc = "events"
        /\ api'[p].pc = "exit"
        /\ b # 0
        /\ events[b].status = "DONE"
        /\ events'[b].time <= now

\* C40: a before_end_lease event that is DONE, and whose time after an
\* update_lease is not later than now, stays DONE: the engine does not fetch
\* it again, and before_end runs once for the lease unless the event was
\* moved into the future.
C40_DoneEventStaysDone ==
    [][\A p \in ApiProcs :
          C40_KeepsDoneEventDue(p) =>
             events'[event_get_first(api[p].lease_id, "before_end_lease")].status
                = "DONE"]_vars

\* ----------------------------------------------------------------- C34
\* create_lease call p writes the events and returns the lease in this step.
C34_Created(p) ==
    /\ api[p].op = "create_lease"
    /\ api[p].pc = "events"
    /\ api'[p].pc = "returned"
    /\ api'[p].raised = "NONE"

\* The before_end_lease events lease l has after the step.
C34_BeforeEndEvents(l) ==
    {e \in EventIds : /\ events'[e].lease_id = l
                      /\ events'[e].event_type = "before_end_lease"}

C34_Expected(p) ==
    LET given == api[p].values.before_end_date
        computed == api[p].end_date - minutes_before_end_lease
    IN  IF given # ABSENT THEN {given}
        ELSE IF minutes_before_end_lease > 0
        THEN {IF computed < api[p].start_date THEN api[p].start_date ELSE computed}
        ELSE {}

\* C34: a create_lease that succeeded leaves the lease with its
\* before_end_lease event at the before_end_date the caller gave; without
\* one, and minutes_before_end_lease > 0, at the later of start_date and
\* end_date - minutes_before_end_lease; otherwise with no such event.  A
\* given date that is not strictly between start_date and end_date makes
\* the call fail before anything is written.
C34_BeforeEndEventOfNewLease ==
    [][\A p \in ApiProcs :
          /\ C34_Created(p) =>
                /\ {events'[e].time : e \in C34_BeforeEndEvents(api[p].lease_id)}
                      = C34_Expected(p)
                /\ Cardinality(C34_BeforeEndEvents(api[p].lease_id))
                      = Cardinality(C34_Expected(p))
          /\ (api'[p].op = "create_lease" /\ api'[p].pc = "lease_create") =>
                \/ api'[p].values.before_end_date = ABSENT
                \/ /\ api'[p].start_date < api'[p].values.before_end_date
                   /\ api'[p].values.before_end_date < api'[p].end_date]_vars

\* ----------------------------------------------------------------- C35
\* C35: create_lease writes in this order: the lease row, in CREATING; for
\* each reservation the plugin's reserve_resource and then the row of the
\* reservation; then the events.  While reserve_resource has not returned
\* the reservation has no row, no event of the lease exists before the
\* reservations are made, and until the events are written the lease is
\* CREATING.
C35_CreateWriteOrder ==
    \A p \in ApiProcs :
        (api[p].op = "create_lease" /\ api[p].pc \in {"reserve", "allocate", "events"}) =>
            /\ leases[api[p].lease_id].status = "CREATING"
            /\ EventsOfLease(api[p].lease_id) = {}
            /\ api[p].pc = "reserve" => ReservationsOfLease(api[p].lease_id) = {}
            /\ api[p].pc = "allocate" => reservations[api[p].res_id].status = "NONE"

\* ---------------------------------------------------------------------------
\* C36  Over any sequence of end_lease and delete_lease operations on one
\* lease, including a delete_lease repeated after a failure with an unclean
\* end, the Enforcement on_end hook is invoked at most once for the lease.
\* ---------------------------------------------------------------------------

C36_OnEndCalls(l) == Len(enforcement.on_end[l])

C36_EnforcementOnEndAtMostOnce ==
    \A l \in LeaseIds : C36_OnEndCalls(l) <= 1

\* ---------------------------------------------------------------------------
\* C37  A failure of the Enforcement on_end hook during end_lease or
\* delete_lease never aborts the teardown: the plugin on_end call is still
\* made for every reservation of the lease and the outcome of the operation
\* depends only on the plugin calls.
\* ---------------------------------------------------------------------------

\* This step made a call of enforcement.on_end for lease l, and it raised.
C37_OnEndRaised(l) ==
    enforcement'.on_end[l] = Append(enforcement.on_end[l], "raised")

\* The end_lease handler of event e went on through every reservation: each
\* one it may end was called and is DELETED or, its plugin call having
\* failed, ERROR; the event is DONE exactly when no reservation failed.
C37_EndLeaseWentOn(e) ==
    LET l == workers[e].event.lease_id
    IN  /\ workers'[e].pc = "exit"
        /\ \A r \in Called(l, "DELETED") : reservations'[r].status \in {"DELETED", "ERROR"}
        /\ events'[e].status =
              IF \A r \in ReservationsOfLease(l) : reservations'[r].status = "DELETED"
              THEN "DONE" ELSE "ERROR"

\* The delete_lease call of p went on to the plugin calls with nothing raised.
C37_DeleteWentOn(p) ==
    /\ api'[p].pc = "teardown"
    /\ api'[p].raised = "NONE"

C37_Step ==
    \A l \in LeaseIds : C37_OnEndRaised(l) =>
        /\ \A e \in EventIds : workers[e].pc = "body" /\ workers'[e].pc # "body"
                                   => C37_EndLeaseWentOn(e)
        /\ \A p \in ApiProcs : api[p].pc = "body" /\ api'[p].pc # "body"
                                   => C37_DeleteWentOn(p)

\* A lease whose end was processed to TERMINATED although its only
\* enforcement.on_end call raised.
C37_Witness ==
    /\ enforcement.on_end[1] = <<"raised">>
    /\ leases[1].status = "TERMINATED"
    /\ events[EndEventOf(1)].status = "DONE"
    /\ \A r \in ReservationsOfLease(1) : reservations[r].status = "DELETED"

C37_EnforcementFailureNeverAborts == [][C37_Step]_vars

\* ---------------------------------------------------------------------------
\* C38  A lease in ERROR is never moved to another status by the event
\* engine: start_lease, end_lease and before_end_lease events dispatched for
\* it leave the lease in ERROR; only an update or a delete through the API
\* changes its status.
\* ---------------------------------------------------------------------------

\* A step of the event engine or of one of its handlers: no API call moved.
C38_EngineStep == api' = api

C38_Step ==
    \A l \in LeaseIds :
        leases[l].status = "ERROR" /\ C38_EngineStep => leases'[l].status = "ERROR"

C39_Places(x) ==
    Cardinality({<<b, i>> \in (DOMAIN selBatches) \X (1..MaxSelLen) :
                    i \in DOMAIN selBatches[b] /\ selBatches[b][i] = x})

\* The number of places in all the batches together.
C39_Size ==
    Cardinality({<<b, i>> \in (DOMAIN selBatches) \X (1..MaxSelLen) :
                    i \in DOMAIN selBatches[b]})

C39_BatchesPartitionInput ==
    selPc = "done" =>
        /\ selBatches # "ValueError"
        /\ \A i \in DOMAIN selInput : C39_Places(selInput[i]) = 1
        /\ C39_Size = Len(selInput)

====
